---- MODULE Spec2Model ----
(***************************************************************************)
(* Market-intelligence collection pipeline (crawl4ai/market_intel):        *)
(* Collection State and its URL dedup index (state.py), the legacy          *)
(* orchestrator MarketIntelCollector (collect.py), the rate limiter          *)
(* (rate_limiter.py) and the target-list pipeline ProductHuntCollector       *)
(* with its TargetManager (collect.py, targets.py).                          *)
(*                                                                           *)
(* Text is modelled as a sequence of one-character strings, so that          *)
(* lower(), strip(), replace(), rstrip(), endswith() and urlparse() are      *)
(* computed character by character as the Python code computes them.        *)
(* Python's None is the value None below; "" is the empty sequence.          *)
(* Wall-clock timestamps written into records (discovered_at, extracted_at,  *)
(* updated_at, paused_at ...) are not modelled.                              *)
(***************************************************************************)
EXTENDS Integers, Sequences, FiniteSets, TLC

\* ------------------------------------------------------------------ text

None == <<"<None>">>

Truthy(x) == x # None /\ x # <<>>

\* the value e, computed once and handed to Body (a local variable of the code)
With(e, Body(_)) == CHOOSE r \in {Body(x) : x \in {e}} : TRUE

Min(S) == CHOOSE x \in S : \A y \in S : x <= y

Max(S) == CHOOSE x \in S : \A y \in S : x >= y

UpperCase ==
  {"A","B","C","D","E","F","G","H","I","J","K","L","M",
   "N","O","P","Q","R","S","T","U","V","W","X","Y","Z"}

LowerOf ==
  ( "A" :> "a" @@ "B" :> "b" @@ "C" :> "c" @@ "D" :> "d" @@ "E" :> "e" @@
    "F" :> "f" @@ "G" :> "g" @@ "H" :> "h" @@ "I" :> "i" @@ "J" :> "j" @@
    "K" :> "k" @@ "L" :> "l" @@ "M" :> "m" @@ "N" :> "n" @@ "O" :> "o" @@
    "P" :> "p" @@ "Q" :> "q" @@ "R" :> "r" @@ "S" :> "s" @@ "T" :> "t" @@
    "U" :> "u" @@ "V" :> "v" @@ "W" :> "w" @@ "X" :> "x" @@ "Y" :> "y" @@
    "Z" :> "z" )

\* str.lower()
lower(s) == [i \in 1..Len(s) |-> IF s[i] \in UpperCase THEN LowerOf[s[i]] ELSE s[i]]

\* str.strip(): leading and trailing blanks removed
strip(s) ==
  LET I == {i \in 1..Len(s) : s[i] # " "}
  IN  IF I = {} THEN <<>> ELSE SubSeq(s, Min(I), Max(I))

\* str.find(c, start) over 1-based positions; 0 when absent
find(s, chars, start) ==
  LET I == {i \in start..Len(s) : s[i] \in chars}
  IN  IF I = {} THEN 0 ELSE Min(I)

\* str.rfind(c); 0 when absent
rfind(s, chars) ==
  LET I == {i \in 1..Len(s) : s[i] \in chars}
  IN  IF I = {} THEN 0 ELSE Max(I)

startswith(s, p) == Len(s) >= Len(p) /\ SubSeq(s, 1, Len(p)) = p

endswith(s, p) == Len(s) >= Len(p) /\ SubSeq(s, Len(s) - Len(p) + 1, Len(s)) = p

\* substring test: pat in s
contains(s, pat) ==
  \E i \in 1..(Len(s) - Len(pat) + 1) : SubSeq(s, i, i + Len(pat) - 1) = pat

\* str.replace(pat, rep): every non-overlapping occurrence, left to right
RECURSIVE replace(_, _, _)
replace(s, pat, rep) ==
  IF s = <<>> THEN <<>>
  ELSE IF startswith(s, pat)
       THEN With(SubSeq(s, Len(pat) + 1, Len(s)),
                 LAMBDA rest : rep \o replace(rest, pat, rep))
       ELSE With(Tail(s),
                 LAMBDA rest : <<Head(s)>> \o replace(rest, pat, rep))

\* str.rstrip(chars)
rstrip(s, chars) ==
  LET I == {i \in 1..Len(s) : s[i] \notin chars}
  IN  IF I = {} THEN <<>> ELSE SubSeq(s, 1, Max(I))

\* ------------------------------------------------------- urllib.parse

SchemeChars ==
  {"a","b","c","d","e","f","g","h","i","j","k","l","m","n","o","p","q","r",
   "s","t","u","v","w","x","y","z","0","1","2","3","4","5","6","7","8","9",
   "+","-","."} \cup UpperCase

Letters == SchemeChars \ {"0","1","2","3","4","5","6","7","8","9","+","-","."}

\* urllib.parse.uses_params: the schemes whose path may carry ;params
UsesParams ==
  { <<>>,
    <<"f","t","p">>,
    <<"h","d","l">>,
    <<"p","r","o","s","p","e","r","o">>,
    <<"h","t","t","p">>,
    <<"i","m","a","p">>,
    <<"h","t","t","p","s">>,
    <<"s","h","t","t","p">>,
    <<"r","t","s","p">>,
    <<"r","t","s","p","s">>,
    <<"r","t","s","p","u">>,
    <<"s","i","p">>,
    <<"s","i","p","s">>,
    <<"m","m","s">>,
    <<"s","f","t","p">>,
    <<"t","e","l">> }

\* urlsplit: the scheme, when the text before the first ":" is one
split_scheme(url) ==
  With(find(url, {":"}, 1), LAMBDA colon :
    IF /\ colon > 1
       /\ url[1] \in Letters
       /\ \A i \in 1..(colon - 1) : url[i] \in SchemeChars
    THEN [scheme |-> lower(SubSeq(url, 1, colon - 1)),
          rest   |-> SubSeq(url, colon + 1, Len(url))]
    ELSE [scheme |-> <<>>, rest |-> url])

\* urlsplit: the netloc, when the rest starts with "//", up to the first / ? #
split_netloc(rest) ==
  IF ~startswith(rest, <<"/", "/">>) THEN [netloc |-> <<>>, rest |-> rest]
  ELSE With(find(rest, {"/", "?", "#"}, 3), LAMBDA delim :
         IF delim = 0
         THEN [netloc |-> SubSeq(rest, 3, Len(rest)), rest |-> <<>>]
         ELSE [netloc |-> SubSeq(rest, 3, delim - 1),
               rest   |-> SubSeq(rest, delim, Len(rest))])

\* the text before the first of chars at or after position start
cut_at(s, chars, start) ==
  With(find(s, chars, start), LAMBDA i :
    IF i = 0 THEN s ELSE SubSeq(s, 1, i - 1))

\* _splitparams: ;params are cut from the last path segment
cut_params(s) ==
  With(rfind(s, {"/"}), LAMBDA lastSlash :
    cut_at(s, {";"}, IF lastSlash = 0 THEN 1 ELSE lastSlash))

\* urlparse(url): scheme, netloc and path (params, query and fragment are cut off)
urlparse(url) ==
  With(split_scheme(url), LAMBDA s :
  With(split_netloc(s.rest), LAMBDA n :
  With(cut_at(n.rest, {"#"}, 1), LAMBDA noFrag :
  With(cut_at(noFrag, {"?"}, 1), LAMBDA noQuery :
    [scheme |-> s.scheme,
     netloc |-> n.netloc,
     path   |-> IF s.scheme \in UsesParams THEN cut_params(noQuery) ELSE noQuery]))))

\* ------------------------------------------------ CollectionState.normalize_url

LocaleSuffixes ==
  << <<"/","e","n">>,
     <<"/","e","n","-","u","s">>,
     <<"/","e","n","-","g","b">>,
     <<"/","h","o","m","e">>,
     <<"/","i","n","d","e","x">> >>

\* the loop over the suffixes, in list order, each applied to the path so far
RECURSIVE strip_suffixes(_, _)
strip_suffixes(path, k) ==
  IF k > Len(LocaleSuffixes) THEN path
  ELSE With(IF endswith(path, LocaleSuffixes[k])
            THEN SubSeq(path, 1, Len(path) - Len(LocaleSuffixes[k]))
            ELSE path,
            LAMBDA cut : strip_suffixes(cut, k + 1))

\* url.lower().strip()
lower_strip(url) == With(lower(url), LAMBDA lowered : strip(lowered))

\* normalize_url that leaves a www. prefix in the domain
normalize_url_keeps_www(url) ==
  IF ~Truthy(url) THEN <<>>
  ELSE With(lower_strip(url), LAMBDA u :
       With(urlparse(u), LAMBDA parsed :
       With(rstrip(parsed.path, {"/"}), LAMBDA path :
         parsed.netloc \o strip_suffixes(path, 1))))

normalize_url(url) ==
  IF ~Truthy(url) THEN <<>>
  ELSE With(lower_strip(url), LAMBDA u :
       With(urlparse(u), LAMBDA parsed :
       With(rstrip(parsed.path, {"/"}), LAMBDA path :
         replace(parsed.netloc, <<"w","w","w",".">>, <<>>) \o strip_suffixes(path, 1))))

\* ------------------------------------------------ state.py: CollectionState

\* Optional[int] fields (votes_count) hold NoneInt for Python's None
NoneInt == 0 - 1

TruthyInt(n) == n # NoneInt /\ n # 0

\* dict helpers: a dict is a function; dict.get(k) gives None for a missing key
Get(d, k) == IF k \in DOMAIN d THEN d[k] ELSE None

Put(d, k, v) == (k :> v) @@ d

Del(d, k) == [x \in (DOMAIN d) \ {k} |-> d[x]]

\* CollectionState.new(): a fresh Collection State (product_keys is the
\* insertion order of the products dict)
new ==
  [ processed_seeds          |-> <<>>,
    product_keys             |-> <<>>,
    products                 |-> <<>>,
    homepage_url_index       |-> <<>>,
    consecutive_llm_failures |-> 0,
    total_llm_failures       |-> 0,
    last_llm_error           |-> None,
    halted                   |-> FALSE,
    halt_reason              |-> None,
    total_discovered         |-> 0,
    total_extracted          |-> 0,
    total_failed             |-> 0,
    total_merged             |-> 0,
    source_stats             |-> <<>> ]

\* a seed gate that never holds
is_seed_processed_never(st, seed) == FALSE

is_seed_processed(st, seed) == \E i \in 1..Len(st.processed_seeds) : st.processed_seeds[i] = seed

\* a seed that is never recorded
mark_seed_processed_never(st, seed) == st

mark_seed_processed(st, seed) ==
  IF is_seed_processed(st, seed) THEN st
  ELSE [st EXCEPT !.processed_seeds = Append(@, seed)]

\* get_product_by_url: the stored entity is returned as its storage key
get_product_by_url(st, homepage_url) ==
  IF ~Truthy(homepage_url) THEN None
  ELSE With(normalize_url(homepage_url), LAMBDA normalized :
       With(Get(st.homepage_url_index, normalized), LAMBDA product_key :
         IF Truthy(product_key) /\ product_key \in DOMAIN st.products
         THEN product_key
         ELSE None))

is_url_known(st, homepage_url) ==
  Truthy(homepage_url) /\ normalize_url(homepage_url) \in DOMAIN st.homepage_url_index

\* the storage key add_product derives
storage_key(a) ==
  IF a.source = "producthunt" /\ Truthy(a.producthunt_id)
  THEN <<"p","h","_">> \o a.producthunt_id
  ELSE IF Truthy(a.saashub_id) THEN a.saashub_id
  ELSE With(lower(a.name), LAMBDA lowered : replace(lowered, <<" ">>, <<"-">>))

\* a or b or c over Optional[str]
FirstTruthy(a, b, c) == IF Truthy(a) THEN a ELSE IF Truthy(b) THEN b ELSE c

\* ProductState(...) as add_product builds it from the observed record a
ProductState(a) ==
  [ name                |-> a.name,
    homepage_url        |-> a.homepage_url,
    saashub_url         |-> a.saashub_url,
    saashub_id          |-> a.saashub_id,
    seed_query          |-> a.seed_query,
    source              |-> a.source,
    source_url          |-> FirstTruthy(a.source_url, a.saashub_url, a.producthunt_url),
    producthunt_id      |-> a.producthunt_id,
    producthunt_url     |-> a.producthunt_url,
    votes_count         |-> a.votes_count,
    tagline             |-> a.tagline,
    topics              |-> a.topics,
    homepage_discovered |-> FALSE,
    extracted           |-> FALSE,
    extraction_error    |-> None,
    extraction_attempts |-> 0 ]

\* merge_product, lines 429-444: the Product Hunt homepage URL is preferred and
\* the index entry moved; url1 is the homepage after the fill of an empty one
merged_homepage(st, existing_key, new_data, url1) ==
  With(normalize_url(IF Truthy(url1) THEN url1 ELSE <<>>), LAMBDA old_normalized :
  With(normalize_url(new_data.homepage_url), LAMBDA new_normalized :
    IF /\ new_data.source = "producthunt"
       /\ Truthy(new_data.homepage_url)
       /\ old_normalized # new_normalized
    THEN [url   |-> new_data.homepage_url,
          index |-> LET idx1 == IF /\ Truthy(old_normalized)
                                   /\ old_normalized \in DOMAIN st.homepage_url_index
                                THEN Del(st.homepage_url_index, old_normalized)
                                ELSE st.homepage_url_index
                    IN  IF Truthy(new_normalized) /\ Truthy(existing_key)
                        THEN Put(idx1, new_normalized, existing_key)
                        ELSE idx1]
    ELSE [url |-> url1, index |-> st.homepage_url_index]))

\* topics replaced by the new ones
merge_topics_replace(existing_topics, new_topics) ==
  IF new_topics # {} THEN new_topics ELSE existing_topics

\* if topics: topics = list(set(existing.topics) | set(topics))
merge_topics(existing_topics, new_topics) ==
  IF new_topics # {} THEN existing_topics \cup new_topics ELSE existing_topics

\* merge_product(existing, new_data): existing is named by its key
merge_product(st, existing_key, new_data) ==
  LET existing == st.products[existing_key]
      \* new homepage fills an empty one
      fill     == Truthy(new_data.homepage_url) /\ ~Truthy(existing.homepage_url)
      url1     == IF fill THEN new_data.homepage_url ELSE existing.homepage_url
      differ   == existing.source # new_data.source
  IN  With(merged_homepage(st, existing_key, new_data, url1), LAMBDA home :
        [st EXCEPT
           !.products[existing_key] =
             [@ EXCEPT
                !.homepage_url        = home.url,
                !.homepage_discovered = IF fill THEN TRUE ELSE @,
                !.producthunt_id      = IF Truthy(new_data.producthunt_id)
                                        THEN new_data.producthunt_id ELSE @,
                !.producthunt_url     = IF Truthy(new_data.producthunt_url)
                                        THEN new_data.producthunt_url ELSE @,
                !.votes_count         = IF TruthyInt(new_data.votes_count)
                                        THEN new_data.votes_count ELSE @,
                !.saashub_id          = IF Truthy(new_data.saashub_id) /\ ~Truthy(@)
                                        THEN new_data.saashub_id ELSE @,
                !.saashub_url         = IF Truthy(new_data.saashub_url) /\ ~Truthy(@)
                                        THEN new_data.saashub_url ELSE @,
                !.tagline             = IF Truthy(new_data.tagline)
                                           /\ (new_data.source = "producthunt" \/ ~Truthy(@))
                                        THEN new_data.tagline ELSE @,
                !.topics              = merge_topics(@, new_data.topics),
                !.source              = IF differ THEN "merged" ELSE @],
           !.homepage_url_index = home.index,
           !.total_merged       = IF differ THEN @ + 1 ELSE @])

\* a key-based update that takes every value the new record has
fill_existing_overwrite(st, key, a, normalized) ==
  [st EXCEPT
     !.products[key] =
       [@ EXCEPT
          !.homepage_url = IF Truthy(a.homepage_url) THEN a.homepage_url ELSE @,
          !.tagline      = IF Truthy(a.tagline) THEN a.tagline ELSE @,
          !.votes_count  = IF TruthyInt(a.votes_count) THEN a.votes_count ELSE @,
          !.topics       = merge_topics(@, a.topics)]]

\* add_product, the key-based duplicate: only empty fields are filled
fill_existing(st, key, a, normalized) ==
  LET setUrl == Truthy(a.homepage_url) /\ ~Truthy(st.products[key].homepage_url)
  IN  [st EXCEPT
         !.products[key] =
           [@ EXCEPT
              !.homepage_url        = IF setUrl THEN a.homepage_url ELSE @,
              !.homepage_discovered = IF setUrl THEN TRUE ELSE @,
              !.tagline     = IF Truthy(a.tagline) /\ ~Truthy(@) THEN a.tagline ELSE @,
              !.votes_count = IF TruthyInt(a.votes_count) /\ ~TruthyInt(@)
                              THEN a.votes_count ELSE @,
              !.topics      = merge_topics(@, a.topics)],
         !.homepage_url_index = IF setUrl /\ Truthy(normalized)
                                THEN Put(@, normalized, key) ELSE @]

\* a new product that is stored and indexed but not counted
insert_new_uncounted(st, key, a, normalized) ==
  [st EXCEPT
     !.product_keys       = Append(@, key),
     !.products           = Put(@, key, [ProductState(a) EXCEPT
                               !.homepage_discovered = (a.homepage_url # None)]),
     !.homepage_url_index = IF Truthy(a.homepage_url) /\ Truthy(normalized)
                            THEN Put(@, normalized, key) ELSE @]

\* add_product, the new product
insert_new(st, key, a, normalized) ==
  LET stat == IF a.source \in DOMAIN st.source_stats
              THEN st.source_stats[a.source]
              ELSE [discovered |-> 0, extracted |-> 0]
  IN  [st EXCEPT
         !.product_keys       = Append(@, key),
         !.products           = Put(@, key, [ProductState(a) EXCEPT
                                   !.homepage_discovered = (a.homepage_url # None)]),
         !.total_discovered   = @ + 1,
         !.homepage_url_index = IF Truthy(a.homepage_url) /\ Truthy(normalized)
                                THEN Put(@, normalized, key) ELSE @,
         !.source_stats       = Put(@, a.source, [stat EXCEPT !.discovered = @ + 1])]

\* add_product(...): a carries the keyword arguments
add_product(st, a) ==
  With(IF Truthy(a.homepage_url) THEN get_product_by_url(st, a.homepage_url) ELSE None,
       LAMBDA existing :
    IF existing # None
    THEN With(ProductState(a), LAMBDA new_data : merge_product(st, existing, new_data))
    ELSE With(storage_key(a), LAMBDA key :
         With(normalize_url(a.homepage_url), LAMBDA normalized :
           IF key \in DOMAIN st.products
           THEN fill_existing(st, key, a, normalized)
           ELSE insert_new(st, key, a, normalized))))

\* products.values() in dict order, as storage keys
product_list(st) == st.product_keys

SelectKeys(st, Want(_)) ==
  LET F[i \in 0..Len(st.product_keys)] ==
        IF i = 0 THEN <<>>
        ELSE IF Want(st.products[st.product_keys[i]])
             THEN Append(F[i - 1], st.product_keys[i])
             ELSE F[i - 1]
  IN  F[Len(st.product_keys)]

NeedsHomepage(p) == ~p.homepage_discovered

NeedsExtraction(p) == p.homepage_discovered /\ Truthy(p.homepage_url) /\ ~p.extracted

get_products_needing_homepage(st) == SelectKeys(st, NeedsHomepage)

get_products_needing_extraction(st) == SelectKeys(st, NeedsExtraction)

\* a success that leaves the consecutive-failure counter alone
mark_extraction_success_keeps_count(st, product_key) ==
  IF product_key \in DOMAIN st.products
  THEN [st EXCEPT !.products[product_key].extracted = TRUE,
                  !.products[product_key].extraction_attempts = @ + 1,
                  !.total_extracted = @ + 1]
  ELSE st

mark_extraction_success(st, product_key) ==
  IF product_key \in DOMAIN st.products
  THEN [st EXCEPT !.products[product_key].extracted = TRUE,
                  !.products[product_key].extraction_attempts = @ + 1,
                  !.total_extracted = @ + 1,
                  !.consecutive_llm_failures = 0]
  ELSE st

\* Halt after 3 consecutive rate limit failures
HaltThreshold == 3

\* the f-string of the halt reason, part by part
HaltReason(n, error) ==
  <<"Rate limit: ", n, " consecutive failures. Last error: ", error>>

\* a failure that is counted in the totals and not on the entity
mark_extraction_failure_totals_only(st, product_key, error, is_rate_limit) ==
  [st EXCEPT !.total_failed = @ + 1,
             !.total_llm_failures = @ + 1,
             !.last_llm_error = error]

mark_extraction_failure(st, product_key, error, is_rate_limit) ==
  LET s1 == IF product_key \in DOMAIN st.products
            THEN [st EXCEPT !.products[product_key].extraction_error = error,
                            !.products[product_key].extraction_attempts = @ + 1]
            ELSE st
      s2 == [s1 EXCEPT !.total_failed = @ + 1,
                       !.total_llm_failures = @ + 1,
                       !.last_llm_error = error]
      n  == st.consecutive_llm_failures + 1
  IN  IF ~is_rate_limit THEN s2
      ELSE IF n >= HaltThreshold
           THEN [s2 EXCEPT !.consecutive_llm_failures = n,
                           !.halted = TRUE,
                           !.halt_reason = HaltReason(n, error)]
           ELSE [s2 EXCEPT !.consecutive_llm_failures = n]

\* the value mark_extraction_failure returns: True when this call halted the run
failure_halts(st, is_rate_limit) ==
  is_rate_limit /\ st.consecutive_llm_failures + 1 >= HaltThreshold

\* a halt check that looks at the failure counter and not at the halted flag
should_halt_on_failures(st) == st.consecutive_llm_failures >= HaltThreshold

\* a halt check that never holds
should_halt_never(st) == FALSE

should_halt(st) == st.halted

\* _rebuild_url_index(): the index recomputed from the products dict, in dict order
rebuild_url_index(st) ==
  LET F[i \in 0..Len(st.product_keys)] ==
        IF i = 0 THEN <<>>
        ELSE With(normalize_url(st.products[st.product_keys[i]].homepage_url),
                  LAMBDA normalized :
                    IF Truthy(normalized)
                    THEN Put(F[i - 1], normalized, st.product_keys[i])
                    ELSE F[i - 1])
  IN  F[Len(st.product_keys)]

\* CollectionState.load(path) of a file that save() wrote: every field is read
\* back, and an empty persisted index is rebuilt
load(data) ==
  IF DOMAIN data.homepage_url_index = {}
  THEN [data EXCEPT !.homepage_url_index = rebuild_url_index(data)]
  ELSE data

\* ------------------------------------------------------- rate_limiter.py

\* RateLimitSource
PRODUCT_HUNT == "producthunt"

OPENAI == "openai"

SAASHUB == "saashub"

RateLimitSource == {PRODUCT_HUNT, OPENAI, SAASHUB}

\* clock ticks per second: the resolution in which min_delay_seconds of every
\* configured source (1.8 s, 1 s, 12 s) is a whole number
TicksPerSecond == 10

\* RATE_LIMIT_CONFIGS (max_retry_seconds and backoff_multiplier default to
\* 3600 and 2.0)
RATE_LIMIT_CONFIGS ==
  [source \in RateLimitSource |->
     IF source = PRODUCT_HUNT
     THEN [requests_per_period |-> 500, period_seconds |-> 15 * 60,
           default_retry_seconds |-> 15 * 60, max_retry_seconds |-> 3600,
           backoff_multiplier |-> 2]
     ELSE IF source = OPENAI
     THEN [requests_per_period |-> 60, period_seconds |-> 60,
           default_retry_seconds |-> 60, max_retry_seconds |-> 300,
           backoff_multiplier |-> 2]
     ELSE [requests_per_period |-> 5, period_seconds |-> 60,
           default_retry_seconds |-> 60, max_retry_seconds |-> 3600,
           backoff_multiplier |-> 2]]

\* RateLimitConfig.min_delay_seconds, in ticks
min_delay_seconds(config) ==
  (config.period_seconds * TicksPerSecond) \div config.requests_per_period

\* RateLimitState(source): times are clock ticks, delays are seconds;
\* paused_at and resume_at hold NoneInt for None
RateLimitState ==
  [ last_request_time    |-> 0,
    request_count        |-> 0,
    period_start_time    |-> 0,
    consecutive_failures |-> 0,
    current_retry_delay  |-> 0,
    paused_at            |-> NoneInt,
    resume_at            |-> NoneInt ]

\* RateLimiter(): a state for every configured source
RateLimiter == [source \in RateLimitSource |-> RateLimitState]

\* RateLimitState.reset_period() at time now
reset_period(rs, now) ==
  [rs EXCEPT !.request_count = 0, !.period_start_time = now]

\* RateLimitState.reset_failures()
reset_failures(rs) ==
  [rs EXCEPT !.consecutive_failures = 0,
             !.current_retry_delay  = 0,
             !.paused_at            = NoneInt,
             !.resume_at            = NoneInt]

\* wait(): the ticks slept before the request may go out
required_delay(rs, config, now) ==
  Max({0, min_delay_seconds(config) - (now - rs.last_request_time)})

\* wait(): the state of the source when wait returns at time now + required_delay
wait(rs, config, now) ==
  LET r1 == IF now - rs.period_start_time >= config.period_seconds * TicksPerSecond
            THEN reset_period(rs, now) ELSE rs
  IN  [r1 EXCEPT !.last_request_time = now + required_delay(rs, config, now),
                 !.request_count     = @ + 1]

\* wait(): on entry, the period is reset when it is over
wait_enter(rs, config, now) ==
  IF now - rs.period_start_time >= config.period_seconds * TicksPerSecond
  THEN reset_period(rs, now) ELSE rs

\* wait(): before it returns, at time now
wait_leave(rs, now) ==
  [rs EXCEPT !.last_request_time = now, !.request_count = @ + 1]

\* handle_rate_limit(): the delay in seconds
retry_delay(rs, config, retry_after) ==
  IF TruthyInt(retry_after) THEN retry_after
  ELSE IF rs.consecutive_failures = 0 THEN config.default_retry_seconds
  ELSE Min({rs.current_retry_delay * config.backoff_multiplier,
            config.max_retry_seconds})

\* handle_rate_limit(): the state of the source while it sleeps, entered at now
handle_rate_limit_pause(rs, config, retry_after, now) ==
  With(retry_delay(rs, config, retry_after), LAMBDA delay :
    [rs EXCEPT !.consecutive_failures = @ + 1,
               !.current_retry_delay  = delay,
               !.paused_at            = now,
               !.resume_at            = now + delay * TicksPerSecond])

\* handle_rate_limit(): the state of the source after the sleep, entered at now
handle_rate_limit(rs, config, retry_after, now) ==
  With(retry_delay(rs, config, retry_after), LAMBDA delay :
    [rs EXCEPT !.consecutive_failures = @ + 1,
               !.current_retry_delay  = delay,
               !.paused_at            = now,
               !.resume_at            = now + delay * TicksPerSecond,
               !.request_count        = 0,
               !.period_start_time    = now + delay * TicksPerSecond])

\* _is_rate_limit_error(error, source) on str(error)
is_rate_limit_error(text, source) ==
  With(lower(text), LAMBDA error_str :
    \/ contains(error_str, <<"4","2","9">>)
    \/ contains(error_str, <<"r","a","t","e"," ","l","i","m","i","t">>)
    \/ contains(error_str, <<"t","o","o"," ","m","a","n","y"," ","r","e","q","u","e","s","t","s">>)
    \/ /\ source = OPENAI
       /\ \/ contains(error_str, <<"r","a","t","e","_","l","i","m","i","t","_","e","x","c","e","e","d","e","d">>)
          \/ contains(error_str, <<"q","u","o","t","a">>)
    \/ /\ source = PRODUCT_HUNT
       /\ contains(error_str, <<"t","h","r","o","t","t","l","e">>))

Digits ==
  ("0" :> 0 @@ "1" :> 1 @@ "2" :> 2 @@ "3" :> 3 @@ "4" :> 4 @@
   "5" :> 5 @@ "6" :> 6 @@ "7" :> 7 @@ "8" :> 8 @@ "9" :> 9)

\* int(text) of a header value: NoneInt stands for ValueError
RECURSIVE int(_, _)
int(text, acc) ==
  IF text = <<>> THEN acc
  ELSE IF Head(text) \notin DOMAIN Digits THEN NoneInt
  ELSE With(Tail(text), LAMBDA rest : int(rest, acc * 10 + Digits[Head(text)]))

\* _extract_retry_after(error): an error is a record of its text, whether it
\* has a retry_after attribute and its value, and the retry-after header of its
\* response (None when it has no response or the header is absent)
extract_retry_after(error) ==
  IF error.has_retry_after THEN error.retry_after
  ELSE IF Truthy(error.header) THEN int(error.header, 0)
  ELSE NoneInt

\* a retry limit that gives up one attempt late
retries_exhausted_late(attempt, max_retries) == attempt > max_retries

\* execute_with_retry: if attempt >= max_retries the error is re-raised
retries_exhausted(attempt, max_retries) == attempt >= max_retries

\* ------------------------------------------------------------ model bounds

\* external calls (discovery queries, homepage fetches, extraction calls) the
\* legacy pipeline makes in one behaviour, over all its runs
MaxCalls == 6

\* extraction calls of the extraction phase run alone, over all its runs
MaxExtractCalls == 5

\* add_product calls on one store
MaxAdds == 2

\* limiter operations (wait, handle_rate_limit, execute_with_retry) in one behaviour
MaxOps == 1

\* extraction calls extract_targets makes in one behaviour, over all its runs
MaxTargetCalls == 4

\* the largest max_retries execute_with_retry is called with
MaxRetries == 2

\* calls of wait() by the logical tasks in one behaviour
MaxWaits == 4

\* --------------------------------------------------------------- variables

VARIABLES
  state,        \* MarketIntelCollector.state: the in-memory Collection State
  disk_exists,  \* whether the state file exists
  disk,         \* the Collection State last saved to the state file
  output,       \* rows appended to the JSONL output file
  pc,           \* where the orchestrator is
  seed_i,       \* discover_products: position in the seed list
  work,         \* the product list the current phase loops over (storage keys)
  item_i,       \* position in work
  skip,         \* the skip_* flags run() is called with
  budget,       \* the external calls the orchestrator may make in this behaviour
  calls_before, \* the external calls made before the latest run() began
  resumed,      \* whether the previous run() returned (it was not cut short)
  refused,      \* whether the latest run() returned at its halted check
  calls,        \* external calls made so far, over all runs
  streak,       \* rate-limit failures of extraction calls in a row: since the
                \* last success (now), and before that success (before_ok)
  last_outcome, \* how the most recent extraction call ended
  hist,         \* the records handed to add_product through its API, in order
  clock,        \* time.time(), in ticks
  limiter,      \* RateLimiter.states
  delays,       \* per source, the delays handle_rate_limit computed since the last success
  exec,         \* the execute_with_retry call in progress, or the last one
  ops,          \* limiter operations started so far
  tm,           \* TargetManager: _targets (with dict order) and _url_index
  tfile,        \* the lines of targets.jsonl
  tpc,          \* where the ProductHuntCollector process is
  batch,        \* extract_targets: pending_targets, as ids
  ti,           \* extract_targets: position in batch
  treason,      \* extract_targets: the error of the failure being handled
  persisted,    \* the limiter state dict (get_state_dict) written to durable storage last
  waiters,      \* per logical task, where it is in wait(): out, or asleep till wake
  wait_returns, \* per source, the times at which wait(source) returned, in order
  sm,           \* a TargetManager used through its status transitions
  sfiles,       \* the files of its directory: path -> lines
  spc,          \* where that manager's process is: pc, position in _save, transitions begun
  sghost,       \* the store file's lines before the latest transition, and the lines
                \* of the target set after it
  lfile, \* the lines of a target file handed to TargetManager(path)
  lres,\* what _load() made of them: the manager, and the exception that escaped
  cdata, \* the JSON object of a state file handed to CollectionState.load
  cres,\* what load made of it: the Collection State, and the exception raised
  rpage, \* the listing page handed to a homepage resolver, as what its patterns match
  rfound,\* what the resolver returned
  bpc, \* resolve_homepage_urls_batch: idle, running, or returned
  bconc, \* its concurrency argument
  bsem, \* the value of its semaphore
  btask, \* per product, the resolve_one task: where it is, how often its resolution began, how it ended
  bresults,\* its results dict: product id -> url
  creds \* MarketIntelCollector: whether saashub_api_key and openai_api_key are set

mvars == <<state, disk_exists, disk, output, pc, seed_i, work, item_i,
           skip, budget, calls_before, resumed, refused, calls, streak, last_outcome>>

lvars == <<clock, limiter, delays, exec, ops>>

tvars == <<tm, tfile, tpc, batch, ti, treason>>

\* logical tasks inside wait()
wvars == <<waiters, wait_returns>>

svars == <<sm, sfiles, spc, sghost>>

ldvars == <<lfile, lres>>

cvars == <<cdata, cres>>

rvars == <<rpage, rfound>>

bvars == <<bpc, bconc, bsem, btask, bresults>>

kvars == <<creds>>

nvars == <<persisted, wvars, svars, ldvars, cvars, rvars, bvars, kvars>>

\* all of nvars but persisted
not_persisted == <<wvars, svars, ldvars, cvars, rvars, bvars, kvars>>

\* all of nvars but wvars
not_wvars == <<persisted, svars, ldvars, cvars, rvars, bvars, kvars>>

not_svars == <<persisted, wvars, ldvars, cvars, rvars, bvars, kvars>>

not_ldvars == <<persisted, wvars, svars, cvars, rvars, bvars, kvars>>

not_cvars == <<persisted, wvars, svars, ldvars, rvars, bvars, kvars>>

not_rvars == <<persisted, wvars, svars, ldvars, cvars, bvars, kvars>>

not_bvars == <<persisted, wvars, svars, ldvars, cvars, rvars, kvars>>

not_kvars == <<persisted, wvars, svars, ldvars, cvars, rvars, bvars>>

vars == <<mvars, hist, nvars, lvars, tvars>>

\* ------------------------------------------------------------ environment

\* the seed list of the run (configs/market_intel_seeds.yml or --seeds)
Seeds == <<"notion", "slack">>

\* alternatives the SaaSHub API may return: id, attributes.name, attributes.saashubUrl
Alt1 ==
  [id |-> <<"s","1">>, name |-> <<"F","o","o">>, saashubUrl |-> <<"/","f","o","o">>]

Alt2 ==
  [id |-> None, name |-> <<"B","a","r"," ","B">>, saashubUrl |-> <<>>]

Alternatives == {Alt1, Alt2}

\* the lists a query for a seed may return
QueryResults(seed) ==
  IF seed = "notion" THEN {<<Alt1, Alt2>>} ELSE {<<>>, <<Alt1>>}

\* homepages the directory page of a product may resolve to
UrlFoo1 == <<"h","t","t","p","s",":","/","/","F","o","o",".","c","o","m","/">>

UrlFoo2 == <<"h","t","t","p",":","/","/","w","w","w",".","f","o","o",".","c","o","m">>

UrlBar == <<"h","t","t","p","s",":","/","/","b","a","r",".","i","o","/","e","n">>

ResolvedUrls == {UrlFoo1, UrlFoo2, UrlBar}

\* error texts of the crawler and of the extraction collaborator
MsgRateLimit == <<"R","a","t","e"," ","l","i","m","i","t"," ","h","i","t">>

Msg429 == <<"H","T","T","P"," ","4","2","9">>

Messages == {MsgRateLimit, Msg429}

NoOutcome == [ok |-> FALSE, error |-> None, is_rate_limit |-> FALSE]

\* ----------------------------------------------- collect.py: MarketIntelCollector

SaaSHubBase ==
  <<"h","t","t","p","s",":","/","/","w","w","w",".","s","a","a","s","h","u","b",".","c","o","m">>

\* the keyword arguments add_product leaves at their defaults
Observed(name, seed, saashub_url, saashub_id) ==
  [ name            |-> name,
    seed_query      |-> seed,
    saashub_url     |-> saashub_url,
    saashub_id      |-> saashub_id,
    homepage_url    |-> None,
    source          |-> "saashub",
    source_url      |-> None,
    producthunt_id  |-> None,
    producthunt_url |-> None,
    votes_count     |-> NoneInt,
    tagline         |-> None,
    topics          |-> {} ]

\* the body of the loop over the alternatives of one seed
register_alternative(st, seed, alt) ==
  LET raw == alt.saashubUrl
      saashub_url == IF Truthy(raw) /\ ~startswith(raw, <<"h","t","t","p">>)
                     THEN SaaSHubBase \o raw ELSE raw
  IN  With(Observed(alt.name, seed, saashub_url, alt.id), LAMBDA a : add_product(st, a))

\* the loop over the alternatives, from position i on
RECURSIVE register_alternatives(_, _, _, _)
register_alternatives(st, seed, alts, i) ==
  IF i > Len(alts) THEN st
  ELSE With(register_alternative(st, seed, alts[i]),
            LAMBDA st1 : register_alternatives(st1, seed, alts, i + 1))

\* "rate limit" in str(error_msg).lower()
says_rate_limit(msg) ==
  contains(lower(msg), <<"r","a","t","e"," ","l","i","m","i","t">>)

\* "rate limit" in error_str.lower() or "429" in error_str
says_rate_limit_or_429(msg) ==
  says_rate_limit(msg) \/ contains(msg, <<"4","2","9">>)

\* product_key = prod.saashub_id or prod.name.lower().replace(" ", "-")
product_key(prod) ==
  IF Truthy(prod.saashub_id) THEN prod.saashub_id
  ELSE With(lower(prod.name), LAMBDA lowered : replace(lowered, <<" ">>, <<"-">>))

\* Save state periodically
SaveEveryHomepages == 10

SaveEveryExtractions == 5

\* fixed error texts of collect.py and saashub.py
MsgCrawlFailed == <<"C","r","a","w","l"," ","f","a","i","l","e","d">>

MsgJsonError == <<"J","S","O","N"," ","p","a","r","s","e"," ","e","r","r","o","r">>

MsgNoContent == <<"N","o"," ","c","o","n","t","e","n","t"," ","e","x","t","r","a","c","t","e","d">>

MsgSaaSHubRateLimit == <<"R","a","t","e"," ","l","i","m","i","t"," ","e","x","c","e","e","d","e","d">>

\* the process is not running: the in-memory state is gone
Idle(returned) ==
  /\ pc' = "idle"
  /\ state' = new
  /\ refused' = FALSE
  /\ seed_i' = 1
  /\ work' = <<>>
  /\ item_i' = 1
  /\ resumed' = returned

\* save_state()
Save(st) == disk' = st /\ disk_exists' = TRUE

NoSave == UNCHANGED <<disk, disk_exists>>

CanCall == calls < budget

Called == calls' = calls + 1

NotCalled == UNCHANGED <<calls, streak>>

\* a query or a fetch: no extraction outcome
CalledOther == Called /\ UNCHANGED streak

\* run(): load_state(), then refuse to proceed on a halted state
RunStart ==
  /\ pc = "idle"
  /\ \E st \in {IF disk_exists THEN load(disk) ELSE new} :
         IF should_halt(st)
         THEN /\ pc' = "idle"
              /\ refused' = TRUE
              /\ resumed' = TRUE
              /\ UNCHANGED <<state, seed_i, work, item_i>>
         ELSE /\ state' = st
              /\ pc' = IF skip.discovery THEN "homepages_begin" ELSE "discover"
              /\ refused' = FALSE
              /\ UNCHANGED <<seed_i, work, item_i, resumed>>
  /\ NoSave
  /\ NotCalled
  /\ last_outcome' = NoOutcome
  /\ calls_before' = calls
  /\ UNCHANGED <<output, skip, budget>>
  /\ UNCHANGED <<hist, nvars, lvars, tvars>>

\* discover_products past its key check, inside the loop over the seeds
\* saashub.py: MAX_RETRIES
MAX_RETRIES == 3

\* what the server answers to one attempt: 200, 429, a client error that is
\* not retried (400, 401, 403, 404), another error status, a transport error
Responses == {"200", "429", "client_error", "server_error", "request_error"}

ResponseSeqs == [1..MAX_RETRIES -> Responses]

RECURSIVE attempt_from(_, _)
\* _make_request: the loop over range(MAX_RETRIES) from attempt a on
attempt_from(resps, a) ==
  IF a >= MAX_RETRIES THEN "SaaSHubAPIError"
  ELSE IF resps[a + 1] = "200" THEN "ok"
  ELSE IF resps[a + 1] = "429"
       THEN IF a < MAX_RETRIES - 1 THEN attempt_from(resps, a + 1) ELSE "RateLimitError"
  ELSE IF resps[a + 1] = "client_error" THEN "SaaSHubAPIError"
  ELSE attempt_from(resps, a + 1)

\* _make_request: the JSON of the answer or the exception raised
make_request(resps) == attempt_from(resps, 0)

\* get_alternatives ends this way for some answers of the server
Answered(outcome) == \E resps \in ResponseSeqs : make_request(resps) = outcome

\* discover_products: except RateLimitError as e
halt_reason_only(st, e) ==
  [st EXCEPT !.halt_reason = <<"SaaSHub rate limit: ", e>>]

halt_on_rate_limit(st, e) ==
  [st EXCEPT !.halted = TRUE, !.halt_reason = <<"SaaSHub rate limit: ", e>>]

InDiscovery == pc = "discover" /\ creds.saashub /\ seed_i <= Len(Seeds)

\* a seed not yet processed is queried
Querying == InDiscovery /\ ~is_seed_processed(state, Seeds[seed_i]) /\ CanCall

\* discover_products: a seed already processed is skipped
DiscoverSkipSeed ==
  /\ InDiscovery
  /\ is_seed_processed(state, Seeds[seed_i])
  /\ seed_i' = seed_i + 1
  /\ NoSave
  /\ NotCalled
  /\ UNCHANGED <<state, output, pc, work, item_i, skip, budget, calls_before, resumed, refused, last_outcome>>
  /\ UNCHANGED <<hist, nvars, lvars, tvars>>

\* discover_products: the query succeeds; results are registered, the seed is
\* marked and the state saved
DiscoverSeedOk ==
  /\ Querying
  /\ Answered("ok")
  /\ \E alts \in QueryResults(Seeds[seed_i]) :
       \E st1 \in {register_alternatives(state, Seeds[seed_i], alts, 1)} :
         \E st \in {mark_seed_processed(st1, Seeds[seed_i])} :
           state' = st /\ Save(st)
  /\ seed_i' = seed_i + 1
  /\ CalledOther
  /\ UNCHANGED <<output, pc, work, item_i, skip, budget, calls_before, resumed, refused, last_outcome>>
  /\ UNCHANGED <<hist, nvars, lvars, tvars>>

\* discover_products: RateLimitError halts the run
DiscoverSeedRateLimited ==
  /\ Querying
  /\ Answered("RateLimitError")
  /\ Save(halt_on_rate_limit(state, MsgSaaSHubRateLimit))
  /\ Idle(TRUE)
  /\ CalledOther
  /\ UNCHANGED <<output, skip, budget, calls_before, last_outcome>>
  /\ UNCHANGED <<hist, nvars, lvars, tvars>>

\* discover_products: another SaaSHubAPIError is logged, the seed skipped
DiscoverSeedApiError ==
  /\ Querying
  /\ Answered("SaaSHubAPIError")
  /\ seed_i' = seed_i + 1
  /\ NoSave
  /\ CalledOther
  /\ UNCHANGED <<state, output, pc, work, item_i, skip, budget, calls_before, resumed, refused, last_outcome>>
  /\ UNCHANGED <<hist, nvars, lvars, tvars>>

DiscoverEnd ==
  /\ pc = "discover"
  /\ creds.saashub
  /\ seed_i > Len(Seeds)
  /\ pc' = "homepages_begin"
  /\ NoSave
  /\ NotCalled
  /\ UNCHANGED <<state, output, seed_i, work, item_i, skip, budget, calls_before, resumed, refused, last_outcome>>
  /\ UNCHANGED <<hist, nvars, lvars, tvars>>

\* run() phase 2 and the head of discover_homepages
HomepagesBegin ==
  /\ pc = "homepages_begin"
  /\ \E products \in {get_products_needing_homepage(state)} :
         IF skip.homepages \/ products = <<>>
         THEN pc' = "extract_begin" /\ UNCHANGED <<work, item_i>>
         ELSE pc' = "homepages" /\ work' = products /\ item_i' = 1
  /\ NoSave
  /\ NotCalled
  /\ UNCHANGED <<state, output, seed_i, skip, budget, calls_before, resumed, refused, last_outcome>>
  /\ UNCHANGED <<hist, nvars, lvars, tvars>>

InHomepages ==
  pc = "homepages" /\ item_i <= Len(work) /\ ~should_halt(state) /\ CanCall

PeriodicSave(st, every) == IF item_i % every = 0 THEN Save(st) ELSE NoSave

\* prod.homepage_url = homepage; prod.homepage_discovered = True
set_homepage(st, key, homepage) ==
  [st EXCEPT !.products[key].homepage_url = homepage,
             !.products[key].homepage_discovered = TRUE]

\* discover_homepages: discover_homepage_single found a homepage
HomepageFound ==
  /\ InHomepages
  /\ \E homepage \in ResolvedUrls :
       \E st \in {set_homepage(state, work[item_i], homepage)} :
         state' = st /\ PeriodicSave(st, SaveEveryHomepages)
  /\ item_i' = item_i + 1
  /\ CalledOther
  /\ UNCHANGED <<output, pc, seed_i, work, skip, budget, calls_before, resumed, refused, last_outcome>>
  /\ UNCHANGED <<hist, nvars, lvars, tvars>>

\* discover_homepages: no homepage found
HomepageNotFound ==
  /\ InHomepages
  /\ PeriodicSave(state, SaveEveryHomepages)
  /\ item_i' = item_i + 1
  /\ CalledOther
  /\ UNCHANGED <<state, output, pc, seed_i, work, skip, budget, calls_before, resumed, refused, last_outcome>>
  /\ UNCHANGED <<hist, nvars, lvars, tvars>>

\* discover_homepages: discover_homepage_single raised
HomepageError ==
  /\ InHomepages
  /\ NoSave
  /\ item_i' = item_i + 1
  /\ CalledOther
  /\ UNCHANGED <<state, output, pc, seed_i, work, skip, budget, calls_before, resumed, refused, last_outcome>>
  /\ UNCHANGED <<hist, nvars, lvars, tvars>>

\* discover_homepages: after the loop the state is saved
HomepagesEnd ==
  /\ pc = "homepages"
  /\ item_i > Len(work) \/ should_halt(state)
  /\ Save(state)
  /\ pc' = "extract_begin"
  /\ NotCalled
  /\ UNCHANGED <<state, output, seed_i, work, item_i, skip, budget, calls_before, resumed, refused, last_outcome>>
  /\ UNCHANGED <<hist, nvars, lvars, tvars>>

\* run() phase 3 and the head of extract_product_info
ExtractBegin ==
  /\ pc = "extract_begin"
  /\ skip.extraction \/ creds.openai
  /\ \E products \in {get_products_needing_extraction(state)} :
         IF skip.extraction \/ products = <<>>
         THEN Idle(TRUE)
         ELSE /\ pc' = "extract" /\ work' = products /\ item_i' = 1
              /\ UNCHANGED <<state, seed_i, resumed, refused>>
  /\ NoSave
  /\ NotCalled
  /\ last_outcome' = NoOutcome
  /\ UNCHANGED <<output, skip, budget, calls_before>>
  /\ UNCHANGED <<hist, nvars, lvars, tvars>>

InExtraction ==
  pc = "extract" /\ item_i <= Len(work) /\ ~should_halt(state) /\ CanCall

CurrentKey == product_key(state.products[work[item_i]])

\* one failed extraction: the failure is recorded; a halt saves and ends the run,
\* otherwise the loop goes on, with or without the periodic save
ExtractFailed(error, is_rate_limit, periodic) ==
  \E key \in {CurrentKey} :
    \E st \in {mark_extraction_failure(state, key, error, is_rate_limit)} :
      /\ last_outcome' = [ok |-> FALSE, error |-> error, is_rate_limit |-> is_rate_limit]
      /\ streak' = IF is_rate_limit THEN [streak EXCEPT !.now = @ + 1] ELSE streak
      /\ Called
      /\ IF failure_halts(state, is_rate_limit)
         THEN Save(st) /\ Idle(TRUE)
         ELSE /\ state' = st
              /\ item_i' = item_i + 1
              /\ IF periodic THEN PeriodicSave(st, SaveEveryExtractions) ELSE NoSave
              /\ UNCHANGED <<pc, seed_i, work, resumed, refused>>
      /\ UNCHANGED <<output, skip, budget, calls_before, hist, nvars, lvars, tvars>>

\* not result.success
ExtractCrawlFailed ==
  /\ InExtraction
  /\ \E msg \in Messages \cup {<<>>} :
       ExtractFailed(IF Truthy(msg) THEN msg ELSE MsgCrawlFailed,
                     FALSE, FALSE)

\* the extraction returned an error payload
ExtractErrorPayload ==
  /\ InExtraction
  /\ \E msg \in Messages :
       ExtractFailed(msg, says_rate_limit(msg), FALSE)

\* json.JSONDecodeError
ExtractJsonError ==
  /\ InExtraction
  /\ ExtractFailed(MsgJsonError, FALSE, TRUE)

\* an exception while the content is validated or written
ExtractParseException ==
  /\ InExtraction
  /\ \E msg \in Messages :
       ExtractFailed(msg, says_rate_limit_or_429(msg), TRUE)

\* no extracted_content
ExtractNoContent ==
  /\ InExtraction
  /\ ExtractFailed(MsgNoContent, FALSE, TRUE)

\* crawler.arun raised
ExtractException ==
  /\ InExtraction
  /\ \E msg \in Messages :
       ExtractFailed(msg, says_rate_limit_or_429(msg), FALSE)

\* a valid extraction: write_product(collected) appends the output row
ExtractWritten ==
  /\ InExtraction
  /\ output' = Append(output, [entity       |-> work[item_i],
                               homepage_url |-> state.products[work[item_i]].homepage_url])
  /\ pc' = "extract_mark"
  /\ last_outcome' = [ok |-> TRUE, error |-> None, is_rate_limit |-> FALSE]
  /\ streak' = [now |-> 0, before_ok |-> streak.now]
  /\ Called
  /\ NoSave
  /\ UNCHANGED <<state, seed_i, work, item_i, skip, budget, calls_before, resumed, refused>>
  /\ UNCHANGED <<hist, nvars, lvars, tvars>>

\* ... then mark_extraction_success(product_key) and the periodic save
ExtractMarked ==
  /\ pc = "extract_mark"
  /\ \E key \in {CurrentKey} :
       \E st \in {mark_extraction_success(state, key)} :
         state' = st /\ PeriodicSave(st, SaveEveryExtractions)
  /\ item_i' = item_i + 1
  /\ pc' = "extract"
  /\ NotCalled
  /\ UNCHANGED <<output, seed_i, work, skip, budget, calls_before, resumed, refused, last_outcome>>
  /\ UNCHANGED <<hist, nvars, lvars, tvars>>

\* extract_product_info: after the loop the state is saved and run() returns
ExtractEnd ==
  /\ pc = "extract"
  /\ item_i > Len(work) \/ should_halt(state)
  /\ Save(state)
  /\ Idle(TRUE)
  /\ NotCalled
  /\ last_outcome' = NoOutcome
  /\ UNCHANGED <<output, skip, budget, calls_before>>
  /\ UNCHANGED <<hist, nvars, lvars, tvars>>

\* the process dies (kill, power loss): nothing is saved
Crash ==
  /\ pc # "idle"
  /\ Idle(FALSE)
  /\ NoSave
  /\ NotCalled
  /\ last_outcome' = NoOutcome
  /\ UNCHANGED <<output, skip, budget, calls_before>>
  /\ UNCHANGED <<hist, nvars, lvars, tvars>>

\* operator interrupt while a query, a fetch or an extraction call is awaited:
\* main_legacy() saves the state and exits
Interrupt ==
  /\ pc \in {"discover", "homepages", "extract"}
  /\ Save(state)
  /\ Idle(FALSE)
  /\ NotCalled
  /\ last_outcome' = NoOutcome
  /\ UNCHANGED <<output, skip, budget, calls_before>>
  /\ UNCHANGED <<hist, nvars, lvars, tvars>>

\* ------------------------------------------- CollectionState.add_product, direct

\* homepage URLs of one site that differ in scheme, letter case, a www. prefix
\* and a trailing slash
SiteVariants ==
  { scheme \o www \o host \o slash :
      scheme \in {<<"h","t","t","p","s",":","/","/">>, <<"h","t","t","p",":","/","/">>},
      www    \in {<<>>, <<"w","w","w",".">>},
      host   \in {<<"F","o","o",".","c","o","m">>, <<"f","o","o",".","c","o","m">>},
      slash  \in {<<>>, <<"/">>} }

\* a record observed in the directory source
FromSaaSHub(name, saashub_id, homepage) ==
  [Observed(name, "notion", SaaSHubBase \o <<"/">> \o lower(name), saashub_id)
     EXCEPT !.homepage_url = homepage]

\* a record observed in the launch source
FromProductHunt(name, id, homepage) ==
  [ name            |-> name,
    seed_query      |-> "discovery",
    saashub_url     |-> None,
    saashub_id      |-> None,
    homepage_url    |-> homepage,
    source          |-> "producthunt",
    source_url      |-> None,
    producthunt_id  |-> id,
    producthunt_url |-> <<"p","h","/">> \o id,
    votes_count     |-> 25,
    tagline         |-> <<"t","a","g">>,
    topics          |-> {"ai"} ]

\* the records the callers of add_product may hand over
Arrivals ==
  {FromSaaSHub(<<"F","o","o">>, <<"s","1">>, u) : u \in SiteVariants \cup {None, UrlBar}}
    \cup
  {FromProductHunt(<<"F","o","o">>, <<"7">>, u) : u \in SiteVariants \cup {None, UrlBar}}

\* one add_product call on the store
AddProduct ==
  /\ Len(hist) < MaxAdds
  /\ \E a \in Arrivals :
       /\ state' = add_product(state, a)
       /\ hist' = Append(hist, a)
  /\ UNCHANGED nvars
  /\ UNCHANGED <<disk_exists, disk, output, pc, seed_i, work, item_i, skip, budget, calls_before,
                 resumed, refused, calls, streak, last_outcome, lvars, tvars>>

\* ------------------------------------- add_product: records with differing data

\* add_product calls in one behaviour of the merge rules
MaxObserved == 3

TagDirectory == <<"d","i","r">>

TagLaunch == <<"n","e","w">>

\* records of one product that differ in source, identifier, homepage variant,
\* votes, tagline and topics
Observations ==
  { FromSaaSHub(<<"F","o","o">>, <<"s","1">>, UrlFoo1),
    [FromSaaSHub(<<"F","o","o","2">>, <<"s","2">>, UrlFoo2)
       EXCEPT !.topics = {"dev"}, !.tagline = TagDirectory, !.votes_count = 5],
    [FromSaaSHub(<<"F","o","o">>, <<"s","1">>, None)
       EXCEPT !.topics = {"dev"}, !.tagline = TagDirectory, !.votes_count = 5],
    FromSaaSHub(<<"F","o","o">>, <<"s","1">>, UrlBar),
    FromProductHunt(<<"F","o","o">>, <<"7">>, UrlFoo1),
    [FromProductHunt(<<"F","o","o">>, <<"8">>, UrlFoo2)
       EXCEPT !.topics = {"dev"}, !.tagline = TagLaunch, !.votes_count = 40],
    [FromProductHunt(<<"F","o","o">>, <<"7">>, None)
       EXCEPT !.topics = {"dev"}, !.tagline = TagLaunch, !.votes_count = 40],
    [FromProductHunt(<<"F","o","o">>, <<"7">>, UrlBar)
       EXCEPT !.topics = {}, !.tagline = None, !.votes_count = NoneInt],
    [FromProductHunt(<<"F","o","o">>, <<"7">>, None)
       EXCEPT !.topics = {}, !.tagline = None, !.votes_count = NoneInt],
    FromProductHunt(<<"B","a","z">>, <<"9">>, <<>>) }

\* one add_product call with one of these records
Observe ==
  /\ Len(hist) < MaxObserved
  /\ \E a \in Observations :
       /\ state' = add_product(state, a)
       /\ hist' = Append(hist, a)
  /\ UNCHANGED nvars
  /\ UNCHANGED <<disk_exists, disk, output, pc, seed_i, work, item_i, skip, budget, calls_before,
                 resumed, refused, calls, streak, last_outcome, lvars, tvars>>

\* ------------------------------------------------- rate_limiter.py: RateLimiter

\* the process clock when the limiter is created: later than any period
StartTime == 4000 * TicksPerSecond

\* how long the limited operation itself may take, in ticks
Durations == {TicksPerSecond \div 2, 2 * TicksPerSecond}

NoError == [text |-> <<>>, has_retry_after |-> FALSE, retry_after |-> NoneInt, header |-> None]

Error(text, header) == [NoError EXCEPT !.text = text, !.header = header]

\* saashub.RateLimitError(message, retry_after)
RateLimitError(retry_after) ==
  [NoError EXCEPT !.text = MsgSaaSHubRateLimit, !.has_retry_after = TRUE,
                  !.retry_after = retry_after]

MsgTimeout == <<"t","i","m","e","d"," ","o","u","t">>

MsgQuota == <<"Q","u","o","t","a"," ","u","s","e","d">>

MsgThrottled == <<"T","h","r","o","t","t","l","e","d">>

\* the errors the limited operation may raise
Errors ==
  { Error(MsgTimeout, None),
    Error(MsgQuota, None),
    Error(MsgThrottled, None),
    Error(Msg429, <<"5">>),
    Error(Msg429, <<"s","o","o","n">>),
    RateLimitError(7200) }

\* the retry_after values handle_rate_limit may be called with
RetryAfters == {NoneInt, 0, 5, 7200}

NoExec ==
  [ pc          |-> "idle",
    source      |-> OPENAI,
    max_retries |-> 0,
    attempt     |-> 0,
    waits       |-> 0,
    invocations |-> 0,
    sleeps      |-> 0,
    result      |-> "none",
    error       |-> NoError,
    retry_after |-> NoneInt ]

\* one state object shared by every source
LimitedShared(source, rs, now) ==
  /\ limiter' = [other \in RateLimitSource |-> rs]
  /\ clock' = now

\* the limiter's part of a step on one source: its state after, the clock after,
\* and the delay history
Limited(source, rs, now) ==
  /\ limiter' = [limiter EXCEPT ![source] = rs]
  /\ clock' = now

\* await limiter.wait(source)
Wait ==
  /\ exec.pc = "idle"
  /\ ops < MaxOps
  /\ \E source \in RateLimitSource :
       Limited(source,
               wait(limiter[source], RATE_LIMIT_CONFIGS[source], clock),
               clock + required_delay(limiter[source], RATE_LIMIT_CONFIGS[source], clock))
  /\ ops' = ops + 1
  /\ UNCHANGED <<mvars, hist, nvars, delays, exec, tvars>>

\* handle_rate_limit on one source at the current time
Backoff(source, retry_after) ==
  \E delay \in {retry_delay(limiter[source], RATE_LIMIT_CONFIGS[source], retry_after)} :
    /\ Limited(source,
               handle_rate_limit(limiter[source], RATE_LIMIT_CONFIGS[source],
                                 retry_after, clock),
               clock + delay * TicksPerSecond)
    /\ delays' = [delays EXCEPT ![source] = Append(@, delay)]

\* await limiter.handle_rate_limit(source, retry_after)
HandleRateLimit ==
  /\ exec.pc = "idle"
  /\ ops < MaxOps
  /\ \E source \in RateLimitSource, retry_after \in RetryAfters :
       Backoff(source, retry_after)
  /\ ops' = ops + 1
  /\ UNCHANGED <<mvars, hist, nvars, exec, tvars>>

\* time goes by between two operations of the limiter
TimePasses ==
  /\ exec.pc = "idle"
  /\ ops < MaxOps
  /\ \E d \in Durations : clock' = clock + d
  /\ ops' = ops + 1
  /\ UNCHANGED <<mvars, hist, nvars, limiter, delays, exec, tvars>>

\* execute_with_retry(source, func, max_retries = n) is entered
ExecStart ==
  /\ exec.pc = "idle"
  /\ ops < MaxOps
  /\ \E source \in RateLimitSource, n \in 0..MaxRetries :
       exec' = [NoExec EXCEPT !.pc = "wait", !.source = source, !.max_retries = n]
  /\ ops' = ops + 1
  /\ UNCHANGED <<mvars, hist, nvars, clock, limiter, delays, tvars>>

\* execute_with_retry: await self.wait(source)
ExecWait ==
  /\ exec.pc = "wait"
  /\ Limited(exec.source,
             wait(limiter[exec.source], RATE_LIMIT_CONFIGS[exec.source], clock),
             clock + required_delay(limiter[exec.source],
                                    RATE_LIMIT_CONFIGS[exec.source], clock))
  /\ exec' = [exec EXCEPT !.pc = "call", !.waits = @ + 1]
  /\ UNCHANGED <<mvars, hist, nvars, delays, ops, tvars>>

\* execute_with_retry: func returned; the failures are reset and the result returned
ExecReturns ==
  /\ exec.pc = "call"
  /\ Limited(exec.source, reset_failures(limiter[exec.source]), clock)
  /\ delays' = [delays EXCEPT ![exec.source] = <<>>]
  /\ exec' = [exec EXCEPT !.pc = "idle", !.invocations = @ + 1, !.result = "returned"]
  /\ UNCHANGED <<mvars, hist, nvars, ops, tvars>>

\* execute_with_retry: func raised; the error is re-raised or a backoff follows
ExecRaises ==
  /\ exec.pc = "call"
  /\ \E error \in Errors :
       IF \/ ~is_rate_limit_error(error.text, exec.source)
          \/ retries_exhausted(exec.attempt, exec.max_retries)
       THEN exec' = [exec EXCEPT !.pc = "idle", !.invocations = @ + 1,
                                 !.result = "raised", !.error = error]
       ELSE exec' = [exec EXCEPT !.pc = "backoff", !.invocations = @ + 1,
                                 !.error = error,
                                 !.retry_after = extract_retry_after(error)]
  /\ UNCHANGED <<mvars, hist, nvars, clock, limiter, delays, ops, tvars>>

\* get_state_dict(), as a state-saving callback would write it
get_state_dict == limiter

\* execute_with_retry: the on_rate_limit callback runs, then handle_rate_limit
\* computes the delay, stores paused_at and resume_at and goes to sleep
ExecBackoff ==
  /\ exec.pc = "backoff"
  /\ persisted' = get_state_dict
  /\ limiter' = [limiter EXCEPT ![exec.source] =
                   handle_rate_limit_pause(@, RATE_LIMIT_CONFIGS[exec.source],
                                           exec.retry_after, clock)]
  /\ delays' = [delays EXCEPT ![exec.source] =
                  Append(@, retry_delay(limiter[exec.source],
                                        RATE_LIMIT_CONFIGS[exec.source],
                                        exec.retry_after))]
  /\ exec' = [exec EXCEPT !.pc = "sleep", !.sleeps = @ + 1]
  /\ UNCHANGED <<mvars, hist, not_persisted, clock, ops, tvars>>

\* execute_with_retry: the sleep of handle_rate_limit ends, the period is reset,
\* then the next round of the loop, or its end
ExecWake ==
  /\ exec.pc = "sleep"
  /\ \E now \in {clock + limiter[exec.source].current_retry_delay * TicksPerSecond} :
       Limited(exec.source, reset_period(limiter[exec.source], now), now)
  /\ exec' = IF exec.attempt + 1 > exec.max_retries
             THEN [exec EXCEPT !.pc = "idle", !.attempt = @ + 1,
                               !.result = "runtime_error"]
             ELSE [exec EXCEPT !.pc = "wait", !.attempt = @ + 1]
  /\ UNCHANGED <<mvars, hist, nvars, delays, ops, tvars>>

\* ------------------------------------- RateLimiter: operations on several sources

\* limiter operations in one behaviour when the sources are mixed
MaxSourceOps == 2

SourceWait ==
  /\ exec.pc = "idle"
  /\ ops < MaxSourceOps
  /\ \E source \in RateLimitSource :
       Limited(source,
               wait(limiter[source], RATE_LIMIT_CONFIGS[source], clock),
               clock + required_delay(limiter[source], RATE_LIMIT_CONFIGS[source], clock))
  /\ ops' = ops + 1
  /\ UNCHANGED <<mvars, hist, nvars, delays, exec, tvars>>

SourceHandleRateLimit ==
  /\ exec.pc = "idle"
  /\ ops < MaxSourceOps
  /\ \E source \in RateLimitSource, retry_after \in RetryAfters :
       Backoff(source, retry_after)
  /\ ops' = ops + 1
  /\ UNCHANGED <<mvars, hist, nvars, exec, tvars>>

SourceTimePasses ==
  /\ exec.pc = "idle"
  /\ ops < MaxSourceOps
  /\ \E d \in Durations : clock' = clock + d
  /\ ops' = ops + 1
  /\ UNCHANGED <<mvars, hist, nvars, limiter, delays, exec, tvars>>

SourceExecStart ==
  /\ exec.pc = "idle"
  /\ ops < MaxSourceOps
  /\ \E source \in RateLimitSource :
       exec' = [NoExec EXCEPT !.pc = "wait", !.source = source, !.max_retries = 1]
  /\ ops' = ops + 1
  /\ UNCHANGED <<mvars, hist, nvars, clock, limiter, delays, tvars>>

NextSources ==
  \/ SourceWait
  \/ SourceHandleRateLimit
  \/ SourceTimePasses
  \/ SourceExecStart
  \/ ExecWait
  \/ ExecReturns
  \/ ExecRaises
  \/ ExecBackoff
  \/ ExecWake

\* ------------------------------------------- RateLimiter.wait, task by task

\* the logical tasks that share one limiter
Tasks == {1, 2}

Out == [pc |-> "out", source |-> OPENAI, wake |-> 0]

\* wait() returns to its caller at the current time
WaitReturns(t, source, rs) ==
  /\ limiter' = [limiter EXCEPT ![source] = wait_leave(rs, clock)]
  /\ wait_returns' = [wait_returns EXCEPT ![source] = Append(@, clock)]
  /\ waiters' = [waiters EXCEPT ![t] = Out]

\* a task calls wait(source): it reads the clock, resets the period when due,
\* and either returns at once or goes to sleep for the required delay
WaitEnter ==
  /\ Len(wait_returns[OPENAI]) + Len(wait_returns[SAASHUB]) + Len(wait_returns[PRODUCT_HUNT])
       + Cardinality({t \in Tasks : waiters[t].pc = "asleep"}) < MaxWaits
  /\ \E t \in Tasks, source \in RateLimitSource :
       /\ waiters[t].pc = "out"
       /\ \E rs \in {wait_enter(limiter[source], RATE_LIMIT_CONFIGS[source], clock)},
             delay \in {required_delay(limiter[source], RATE_LIMIT_CONFIGS[source], clock)} :
            IF delay > 0
            THEN /\ limiter' = [limiter EXCEPT ![source] = rs]
                 /\ waiters' = [waiters EXCEPT ![t] =
                                  [pc |-> "asleep", source |-> source, wake |-> clock + delay]]
                 /\ UNCHANGED wait_returns
            ELSE WaitReturns(t, source, rs)
  /\ UNCHANGED <<mvars, hist, not_wvars, clock, delays, exec, ops, tvars>>

\* asyncio.sleep(required_delay) is over: the task stamps the request and returns
WaitWakes ==
  /\ \E t \in Tasks :
       /\ waiters[t].pc = "asleep"
       /\ waiters[t].wake <= clock
       /\ WaitReturns(t, waiters[t].source, limiter[waiters[t].source])
  /\ UNCHANGED <<mvars, hist, not_wvars, clock, delays, exec, ops, tvars>>

\* time goes by: up to the next wake-up of a sleeping task, or while no task sleeps
WaitTimePasses ==
  /\ \/ \E t \in Tasks :
          /\ waiters[t].pc = "asleep"
          /\ waiters[t].wake > clock
          /\ \A u \in Tasks : waiters[u].pc = "asleep" => waiters[u].wake >= waiters[t].wake
          /\ clock' = waiters[t].wake
          /\ UNCHANGED ops
     \/ /\ \A t \in Tasks : waiters[t].pc = "out"
        /\ ops < MaxOps
        /\ \E d \in Durations : clock' = clock + d
        /\ ops' = ops + 1
  /\ UNCHANGED <<mvars, hist, nvars, limiter, delays, exec, tvars>>

NextWait ==
  \/ WaitEnter
  \/ WaitWakes
  \/ WaitTimePasses

\* ------------------------------------------------- targets.py: TargetManager

PENDING == "pending"

COMPLETED == "completed"

FAILED == "failed"

\* Target.from_producthunt(product), the fields the manager and the extraction use
Target(id, homepage_url) ==
  [ id                  |-> id,
    homepage_url        |-> homepage_url,
    status              |-> PENDING,
    failure_reason      |-> None,
    extraction_attempts |-> 0 ]

\* TargetManager before _load: order is the key order of the _targets dict
NoTargets == [targets |-> <<>>, order |-> <<>>, url_index |-> <<>>]

\* _load(): one line of the file
load_line(m, target) ==
  With(normalize_url(target.homepage_url), LAMBDA normalized :
    [m EXCEPT
       !.order     = IF target.id \in DOMAIN m.targets THEN @ ELSE Append(@, target.id),
       !.targets   = Put(@, target.id, target),
       !.url_index = IF Truthy(target.homepage_url) /\ Truthy(normalized)
                     THEN Put(@, normalized, target.id) ELSE @])

\* TargetManager(path): _load() of the lines of the file
RECURSIVE load_targets(_, _, _)
load_targets(m, lines, i) ==
  IF i > Len(lines) THEN m
  ELSE With(load_line(m, lines[i]), LAMBDA m1 : load_targets(m1, lines, i + 1))

\* a save that writes every target without its failure reason
saved_lines_without_reason(m) ==
  [i \in 1..Len(m.order) |-> [m.targets[m.order[i]] EXCEPT !.failure_reason = None]]

\* _save(): every target, in dict order, replaces the file
saved_lines(m) == [i \in 1..Len(m.order) |-> m.targets[m.order[i]]]

\* add_target that looks at the id only
add_target_returns_by_id(m, target) == target.id \notin DOMAIN m.targets

\* add_target(target): True when the target was added
add_target_returns(m, target) ==
  /\ target.id \notin DOMAIN m.targets
  /\ ~(/\ Truthy(target.homepage_url)
       /\ With(normalize_url(target.homepage_url), LAMBDA normalized :
            Truthy(normalized) /\ normalized \in DOMAIN m.url_index))

\* add_target(target): the manager after the call
add_target(m, target) ==
  IF add_target_returns(m, target) THEN load_line(m, target) ELSE m

\* get_pending(), as ids in dict order
get_pending(m) ==
  LET F[i \in 0..Len(m.order)] ==
        IF i = 0 THEN <<>>
        ELSE IF m.targets[m.order[i]].status = PENDING
             THEN Append(F[i - 1], m.order[i])
             ELSE F[i - 1]
  IN  F[Len(m.order)]

\* mark_completed(target_id)
mark_completed(m, target_id) ==
  IF target_id \notin DOMAIN m.targets THEN m
  ELSE [m EXCEPT !.targets[target_id].status = COMPLETED,
                 !.targets[target_id].extraction_attempts = @ + 1]

\* a mark_failed that records the reason and leaves the status
mark_failed_keeps_status(m, target_id, reason) ==
  IF target_id \notin DOMAIN m.targets THEN m
  ELSE [m EXCEPT !.targets[target_id].failure_reason = reason,
                 !.targets[target_id].extraction_attempts = @ + 1]

\* mark_failed(target_id, reason)
mark_failed(m, target_id, reason) ==
  IF target_id \notin DOMAIN m.targets THEN m
  ELSE [m EXCEPT !.targets[target_id].status = FAILED,
                 !.targets[target_id].failure_reason = reason,
                 !.targets[target_id].extraction_attempts = @ + 1]

\* ------------------------------------------- collect.py: ProductHuntCollector

\* the products build_targets may see
TargetPool ==
  { Target(<<"p","h","_","1">>, UrlFoo1),
    Target(<<"p","h","_","2">>, UrlBar),
    Target(<<"p","h","_","3">>, UrlFoo2) }

NotLegacy ==
  UNCHANGED <<state, disk_exists, disk, pc, seed_i, work, item_i, skip, budget, calls_before,
              resumed, refused, streak, last_outcome, hist, nvars, exec, ops>>

\* ProductHuntCollector(): the target file is loaded, the limiter is new
Launch ==
  /\ tpc = "down"
  /\ tm' = load_targets(NoTargets, tfile, 1)
  /\ limiter' = RateLimiter
  /\ delays' = [source \in RateLimitSource |-> <<>>]
  /\ tpc' = "ready"
  /\ NotLegacy
  /\ UNCHANGED <<output, calls, clock, tfile, batch, ti, treason>>

\* add_target(target) for a target of the pool returns True: the target is
\* stored and _save_single appends it to the file
AddTargetFrom(pool) ==
  /\ tpc = "ready"
  /\ \E target \in pool :
       /\ add_target_returns(tm, target)
       /\ tm' = add_target(tm, target)
       /\ tfile' = Append(tfile, target)
  /\ NotLegacy
  /\ UNCHANGED <<output, calls, clock, limiter, delays, tpc, batch, ti, treason>>

\* add_target(target) for a target of the pool returns False
AddTargetDuplicateFrom(pool) ==
  /\ tpc = "ready"
  /\ \E target \in pool :
       /\ ~add_target_returns(tm, target)
       /\ tm' = add_target(tm, target)
  /\ NotLegacy
  /\ UNCHANGED <<output, calls, clock, limiter, delays, tfile, tpc, batch, ti, treason>>

\* build_targets: _add_product_as_target appends the new target to the file
AddTarget == AddTargetFrom(TargetPool)

\* build_targets: a product whose id or homepage is known is not added
AddTargetDuplicate == AddTargetDuplicateFrom(TargetPool)

\* targets that repeat an id, repeat a homepage in another spelling, or have none
AddPool ==
  TargetPool \cup
  { Target(<<"p","h","_","1">>, None),
    Target(<<"p","h","_","4">>, None),
    Target(<<"p","h","_","5">>, None),
    Target(<<"p","h","_","6">>, <<"h","t","t","p",":","/","/","w","w","w",".","B","a","r",".","i","o">>) }

\* add_target called with any of these targets
AddAny == AddTargetFrom(AddPool)

AddAnyDuplicate == AddTargetDuplicateFrom(AddPool)

\* extract_targets: the pending batch; with none pending the command returns
ExtractTargetsBegin ==
  /\ tpc = "ready"
  /\ \E pending \in {get_pending(tm)} :
       IF pending = <<>>
       THEN tpc' = "down" /\ tm' = NoTargets /\ UNCHANGED <<batch, ti>>
       ELSE tpc' = "wait" /\ batch' = pending /\ ti' = 1 /\ UNCHANGED tm
  /\ NotLegacy
  /\ UNCHANGED <<output, calls, clock, limiter, delays, tfile, treason>>

\* extract_targets: await self.rate_limiter.wait(RateLimitSource.OPENAI)
TargetWait ==
  /\ tpc = "wait"
  /\ ti <= Len(batch)
  /\ CanCall
  /\ Limited(OPENAI,
             wait(limiter[OPENAI], RATE_LIMIT_CONFIGS[OPENAI], clock),
             clock + required_delay(limiter[OPENAI], RATE_LIMIT_CONFIGS[OPENAI], clock))
  /\ tpc' = "call"
  /\ NotLegacy
  /\ UNCHANGED <<output, calls, delays, tm, tfile, batch, ti, treason>>

\* the extraction call of the current target takes its time
Arun == tpc = "call" /\ Called /\ \E d \in Durations : clock' = clock + d

\* mark_failed(target.id, reason) and its _save(); the loop goes on
TargetFailed(reason) ==
  /\ \E m \in {mark_failed(tm, batch[ti], reason)} :
       tm' = m /\ tfile' = saved_lines(m)
  /\ ti' = ti + 1
  /\ tpc' = "wait"
  /\ treason' = None

\* a failure classified as a rate limit: handle_rate_limit comes before mark_failed
TargetRateLimited(reason) ==
  /\ tpc' = "backoff"
  /\ treason' = reason
  /\ UNCHANGED <<tm, tfile, ti>>

\* not result.success
TargetCrawlFailed ==
  /\ Arun
  /\ \E msg \in Messages \cup {<<>>} :
       TargetFailed(IF Truthy(msg) THEN msg ELSE MsgCrawlFailed)
  /\ NotLegacy
  /\ UNCHANGED <<output, limiter, delays, batch>>

\* the extraction returned an error payload
TargetErrorPayload ==
  /\ Arun
  /\ \E msg \in Messages :
       IF says_rate_limit(msg) THEN TargetRateLimited(msg) ELSE TargetFailed(msg)
  /\ NotLegacy
  /\ UNCHANGED <<output, limiter, delays, batch>>

\* json.JSONDecodeError
TargetJsonError ==
  /\ Arun
  /\ TargetFailed(MsgJsonError)
  /\ NotLegacy
  /\ UNCHANGED <<output, limiter, delays, batch>>

\* an exception while the content is validated or written
TargetParseException ==
  /\ Arun
  /\ \E msg \in Messages :
       IF says_rate_limit_or_429(msg) THEN TargetRateLimited(msg) ELSE TargetFailed(msg)
  /\ NotLegacy
  /\ UNCHANGED <<output, limiter, delays, batch>>

\* no extracted_content
TargetNoContent ==
  /\ Arun
  /\ TargetFailed(MsgNoContent)
  /\ NotLegacy
  /\ UNCHANGED <<output, limiter, delays, batch>>

\* crawler.arun raised
TargetException ==
  /\ Arun
  /\ \E msg \in Messages :
       IF says_rate_limit_or_429(msg) THEN TargetRateLimited(msg) ELSE TargetFailed(msg)
  /\ NotLegacy
  /\ UNCHANGED <<output, limiter, delays, batch>>

\* await self.rate_limiter.handle_rate_limit(RateLimitSource.OPENAI), then mark_failed
TargetBackoff ==
  /\ tpc = "backoff"
  /\ Backoff(OPENAI, NoneInt)
  /\ TargetFailed(treason)
  /\ NotLegacy
  /\ UNCHANGED <<output, calls, batch>>

\* a valid extraction: _write_product(collected) appends the output row
TargetWritten ==
  /\ Arun
  /\ output' = Append(output, [entity       |-> batch[ti],
                               homepage_url |-> tm.targets[batch[ti]].homepage_url])
  /\ tpc' = "mark"
  /\ NotLegacy
  /\ UNCHANGED <<limiter, delays, tm, tfile, batch, ti, treason>>

\* ... then self.targets.mark_completed(target.id) and its _save()
TargetCompleted ==
  /\ tpc = "mark"
  /\ \E m \in {mark_completed(tm, batch[ti])} :
       tm' = m /\ tfile' = saved_lines(m)
  /\ ti' = ti + 1
  /\ tpc' = "wait"
  /\ NotLegacy
  /\ UNCHANGED <<output, calls, clock, limiter, delays, batch, treason>>

\* the process is over: its memory (targets, limiter) is gone
Down ==
  /\ tpc' = "down"
  /\ tm' = NoTargets
  /\ limiter' = RateLimiter
  /\ delays' = [source \in RateLimitSource |-> <<>>]
  /\ batch' = <<>>
  /\ ti' = 1
  /\ treason' = None
  /\ NotLegacy
  /\ UNCHANGED <<output, calls, clock, tfile>>

\* extract_targets: after the loop the command returns
ExtractTargetsEnd ==
  /\ tpc = "wait"
  /\ ti > Len(batch)
  /\ Down

\* the process dies (kill, power loss)
TargetCrash ==
  /\ tpc \notin {"down", "ready"}
  /\ Down

\* the build-targets command returns and the process ends
BuildTargetsEnd ==
  /\ tpc = "ready"
  /\ Down

NextAdd ==
  \/ Launch
  \/ AddAny
  \/ AddAnyDuplicate
  \/ BuildTargetsEnd

\* ------------------------------------- targets.py: the store file on disk

MaxStoreOps == 2

\* TargetManager.path
StorePath == [stem |-> "targets", suffix |-> ".jsonl"]

\* Path.with_suffix(suffix)
with_suffix_same(path, suffix) == path

with_suffix(path, suffix) == [path EXCEPT !.suffix = suffix]

\* _save(): temp_path
temp_path(path) == with_suffix(path, ".jsonl.tmp")

\* open(path, "w"): the file exists and is empty
open_w(files, path) == Put(files, path, <<>>)

\* f.write(line) on a file opened for writing or appending
write_line(files, path, line) ==
  Put(files, path, Append(IF path \in DOMAIN files THEN files[path] ELSE <<>>, line))

\* shutil.move(src, dst) inside one directory: os.rename
move(files, src, dst) ==
  IF src = dst THEN files ELSE Del(Put(files, dst, files[src]), src)

\* reset_failed(target_id)
reset_failed(m, target_id) ==
  IF target_id \notin DOMAIN m.targets THEN m
  ELSE [m EXCEPT !.targets[target_id].status = PENDING,
                 !.targets[target_id].failure_reason = None]

\* reset_all_failed(): count
reset_all_failed_count(m) ==
  Cardinality({id \in DOMAIN m.targets : m.targets[id].status = FAILED})

\* reset_all_failed(): the manager after the loop
reset_all_failed(m) ==
  [m EXCEPT !.targets =
     [id \in DOMAIN m.targets |->
        IF m.targets[id].status = FAILED
        THEN [m.targets[id] EXCEPT !.status = PENDING, !.failure_reason = None]
        ELSE m.targets[id]]]

NotStore == UNCHANGED <<mvars, hist, not_svars, lvars, tvars>>

\* add_target(target) and its _save_single: the line is appended to the file
StoreAdd ==
  /\ spc.pc = "idle"
  /\ \E target \in TargetPool :
       /\ add_target_returns(sm, target)
       /\ sm' = add_target(sm, target)
       /\ sfiles' = write_line(sfiles, StorePath, target)
  /\ sghost' = [before |-> sfiles'[StorePath], after |-> sfiles'[StorePath]]
  /\ UNCHANGED spc
  /\ NotStore

\* a status transition up to the open(temp_path, "w") of its _save()
BeginSave(m) ==
  /\ sm' = m
  /\ sfiles' = open_w(sfiles, temp_path(StorePath))
  /\ spc' = [spc EXCEPT !.pc = "writing", !.i = 1, !.n = @ + 1]
  /\ sghost' = [before |-> Get(sfiles, StorePath), after |-> saved_lines(m)]
  /\ NotStore

\* a status transition that returns without saving
NoSave13(m) ==
  /\ sm' = m
  /\ spc' = [spc EXCEPT !.n = @ + 1]
  /\ sghost' = [before |-> Get(sfiles, StorePath), after |-> Get(sfiles, StorePath)]
  /\ UNCHANGED sfiles
  /\ NotStore

StoreIds == {target.id : target \in TargetPool}

CanTransition == spc.pc = "idle" /\ spc.n < MaxStoreOps

StoreMarkCompleted ==
  /\ CanTransition
  /\ \E target_id \in StoreIds :
       IF target_id \in DOMAIN sm.targets
       THEN BeginSave(mark_completed(sm, target_id))
       ELSE NoSave13(sm)

StoreMarkFailed ==
  /\ CanTransition
  /\ \E target_id \in StoreIds :
       IF target_id \in DOMAIN sm.targets
       THEN BeginSave(mark_failed(sm, target_id, MsgCrawlFailed))
       ELSE NoSave13(sm)

StoreResetFailed ==
  /\ CanTransition
  /\ \E target_id \in StoreIds :
       IF target_id \in DOMAIN sm.targets
       THEN BeginSave(reset_failed(sm, target_id))
       ELSE NoSave13(sm)

StoreResetAllFailed ==
  /\ CanTransition
  /\ IF reset_all_failed_count(sm) > 0
     THEN BeginSave(reset_all_failed(sm))
     ELSE NoSave13(sm)

\* _save(): one f.write of the loop over self._targets.values()
SaveWrite ==
  /\ spc.pc = "writing"
  /\ spc.i <= Len(sm.order)
  /\ sfiles' = write_line(sfiles, temp_path(StorePath), saved_lines(sm)[spc.i])
  /\ spc' = [spc EXCEPT !.i = @ + 1]
  /\ UNCHANGED <<sm, sghost>>
  /\ NotStore

\* _save(): the file is closed and moved over the store file
SaveMove ==
  /\ spc.pc = "writing"
  /\ spc.i > Len(sm.order)
  /\ sfiles' = move(sfiles, temp_path(StorePath), StorePath)
  /\ spc' = [spc EXCEPT !.pc = "idle"]
  /\ UNCHANGED <<sm, sghost>>
  /\ NotStore

\* the process dies; the files stay as they are
StoreCrash ==
  /\ spc.pc \in {"idle", "writing"}
  /\ spc.n > 0
  /\ spc' = [spc EXCEPT !.pc = "crashed"]
  /\ sm' = NoTargets
  /\ UNCHANGED <<sfiles, sghost>>
  /\ NotStore

\* TargetManager(path) in a new process: _load()
StoreRestart ==
  /\ spc.pc = "crashed"
  /\ sm' = load_targets(NoTargets, IF StorePath \in DOMAIN sfiles
                                   THEN sfiles[StorePath] ELSE <<>>, 1)
  /\ spc' = [spc EXCEPT !.pc = "idle"]
  /\ UNCHANGED <<sfiles, sghost>>
  /\ NotStore

NextStore ==
  \/ StoreAdd
  \/ StoreMarkCompleted
  \/ StoreMarkFailed
  \/ StoreResetFailed
  \/ StoreResetAllFailed
  \/ SaveWrite
  \/ SaveMove
  \/ StoreCrash
  \/ StoreRestart

\* ------------------------------------------ targets.py: _load() of any file

MaxLines == 3

\* no exception left the call
NoRaise == "none"

\* the fields of the Target dataclass
TargetFields ==
  { "id", "name", "homepage_url", "producthunt_url", "status", "discovered_at",
    "completed_at", "failed_at", "failure_reason", "extraction_attempts",
    "source", "tagline", "description", "votes_count", "reviews_count",
    "reviews_rating", "topics", "makers", "slug", "created_at", "featured_at",
    "thumbnail_url" }

\* the fields of the Target dataclass without a default
RequiredFields == {"id", "name"}

\* the values of TargetStatus
TargetStatus == {PENDING, COMPLETED, FAILED}

\* json.loads(line): text that is not JSON, or the JSON value
NotJson == [json |-> "invalid"]

JsonArray == [json |-> "array"]

JsonScalar == [json |-> "scalar"]

JsonObject(fields) == [json |-> "object", fields |-> fields]

\* cls(**data) with the dataclass defaults, the fields the manager uses
target_of(data) ==
  [ id                  |-> data.id,
    homepage_url        |-> IF "homepage_url" \in DOMAIN data
                            THEN data.homepage_url ELSE None,
    status              |-> IF "status" \in DOMAIN data THEN data.status ELSE PENDING,
    failure_reason      |-> IF "failure_reason" \in DOMAIN data
                            THEN data.failure_reason ELSE None,
    extraction_attempts |-> IF "extraction_attempts" \in DOMAIN data
                            THEN data.extraction_attempts ELSE 0 ]

\* Target.from_dict(data): the exception it raises, or NoRaise
from_dict_raises(value) ==
  IF value.json = "scalar" THEN "AttributeError"
  ELSE IF value.json = "array" THEN "TypeError"
  ELSE IF "status" \in DOMAIN value.fields /\ value.fields.status \notin TargetStatus
       THEN "ValueError"
  ELSE IF ~(RequiredFields \subseteq DOMAIN value.fields)
            \/ ~(DOMAIN value.fields \subseteq TargetFields)
       THEN "TypeError"
  ELSE NoRaise

\* the try block of _load() for one line: the exception it raises, or NoRaise
line_raises(line) ==
  IF line.json = "invalid" THEN "JSONDecodeError" ELSE from_dict_raises(line)

\* except (json.JSONDecodeError, TypeError)
load_catches(exception) == exception \in {"JSONDecodeError", "TypeError"}

\* _load(): the loop over the lines of the file, until an exception escapes
RECURSIVE load_file(_, _, _)
load_file(m, lines, i) ==
  IF i > Len(lines) THEN [m |-> m, raised |-> NoRaise]
  ELSE With(line_raises(lines[i]), LAMBDA exception :
         IF exception = NoRaise
         THEN With(load_line(m, target_of(lines[i].fields)), LAMBDA m1 :
                load_file(m1, lines, i + 1))
         ELSE IF load_catches(exception) THEN load_file(m, lines, i + 1)
         ELSE [m |-> m, raised |-> exception])

FirstLine == [id |-> <<"p","h","_","1">>, name |-> <<"n">>, homepage_url |-> UrlFoo1]

\* the lines a target file may hold
LinePool ==
  { JsonObject(FirstLine),
    JsonObject([FirstLine EXCEPT !.homepage_url = UrlBar] @@ [status |-> COMPLETED]),
    JsonObject([id |-> <<"p","h","_","2">>, name |-> <<"n">>]),
    NotJson,
    JsonArray,
    JsonScalar,
    JsonObject([id |-> <<"p","h","_","3">>]),
    JsonObject(FirstLine @@ [zzz |-> 1]),
    JsonObject([id |-> <<"p","h","_","3">>, name |-> <<"n">>, status |-> <<"o","l","d">>]) }

TargetFiles == UNION {[1..n -> LinePool] : n \in 0..MaxLines}

\* TargetManager(path) on a file of any lines; one file per behaviour
LoadTargets ==
  /\ lfile = <<>>
  /\ \E lines \in TargetFiles :
       /\ lfile' = lines
       /\ lres' = load_file(NoTargets, lines, 1)
  /\ UNCHANGED <<mvars, hist, not_ldvars, lvars, tvars>>

\* ---------------------------------------- state.py: load() of any state file

MaxProducts == 2

STATE_VERSION == 2

\* dict.get(key, default)
get(d, key, default) == IF key \in DOMAIN d THEN d[key] ELSE default

\* dict.setdefault(key, default)
setdefault(d, key, default) == IF key \in DOMAIN d THEN d ELSE Put(d, key, default)

\* the fields of the ProductState dataclass the model keeps
ProductFields ==
  { "name", "homepage_url", "saashub_url", "saashub_id", "seed_query", "source",
    "source_url", "producthunt_id", "producthunt_url", "votes_count", "tagline",
    "topics", "homepage_discovered", "extracted", "extraction_error",
    "extraction_attempts" }

\* the multi-source fields version 2 added to ProductState
NewerFields ==
  { "source", "source_url", "producthunt_id", "producthunt_url", "votes_count",
    "tagline", "topics" }

\* _migrate: the loop body over the products of a version 1 file
migrate_product(prod) ==
  [source          |-> "saashub",
   source_url      |-> get(prod, "saashub_url", None),
   producthunt_id  |-> None,
   producthunt_url |-> None,
   votes_count     |-> NoneInt,
   tagline         |-> None,
   topics          |-> {}] @@ prod

\* a migration that changes nothing
migrate_nothing(data, from_version) == data

\* _migrate(data, from_version)
migrate(data, from_version) ==
  IF from_version < 2
  THEN ([version            |-> 2,
         homepage_url_index |-> <<>>,
         current_phase      |-> "discovery",
         phase_progress     |-> <<>>,
         total_merged       |-> 0,
         source_stats       |-> <<>>]
        @@ (IF "products" \in DOMAIN data
            THEN [products |-> [key \in DOMAIN data.products |->
                                  migrate_product(data.products[key])]]
            ELSE <<>>)
        @@ data)
  ELSE data

\* load: the setdefault calls on one product of the file
with_defaults(prod_data) ==
  With(setdefault(prod_data, "source", "saashub"), LAMBDA d1 :
  With(setdefault(d1, "source_url", get(d1, "saashub_url", None)), LAMBDA d2 :
  With(setdefault(d2, "producthunt_id", None), LAMBDA d3 :
  With(setdefault(d3, "producthunt_url", None), LAMBDA d4 :
  With(setdefault(d4, "votes_count", NoneInt), LAMBDA d5 :
  With(setdefault(d5, "tagline", None), LAMBDA d6 :
    setdefault(d6, "topics", {})))))))

\* ProductState(**prod_data): TypeError without a name or with an unknown field
product_raises(prod_data) ==
  IF "name" \notin DOMAIN prod_data \/ ~(DOMAIN prod_data \subseteq ProductFields)
  THEN "TypeError" ELSE NoRaise

\* ProductState(**prod_data): the dataclass defaults fill the other fields
product_of(prod_data) ==
  prod_data @@
  [ homepage_url        |-> None,
    saashub_url         |-> None,
    saashub_id          |-> None,
    seed_query          |-> <<>>,
    source              |-> "saashub",
    source_url          |-> None,
    producthunt_id      |-> None,
    producthunt_url     |-> None,
    votes_count         |-> NoneInt,
    tagline             |-> None,
    topics              |-> {},
    homepage_discovered |-> FALSE,
    extracted           |-> FALSE,
    extraction_error    |-> None,
    extraction_attempts |-> 0 ]

\* load: the CollectionState built from the (migrated) data
state_of(data) ==
  With([ processed_seeds          |-> get(data, "processed_seeds", <<>>),
         product_keys             |-> get(data, "product_keys", <<>>),
         products                 |-> [key \in DOMAIN get(data, "products", <<>>) |->
                                         product_of(with_defaults(data.products[key]))],
         homepage_url_index       |-> get(data, "homepage_url_index", <<>>),
         current_phase            |-> get(data, "current_phase", "discovery"),
         phase_progress           |-> get(data, "phase_progress", <<>>),
         consecutive_llm_failures |-> get(data, "consecutive_llm_failures", 0),
         total_llm_failures       |-> get(data, "total_llm_failures", 0),
         last_llm_error           |-> get(data, "last_llm_error", None),
         halted                   |-> get(data, "halted", FALSE),
         halt_reason              |-> get(data, "halt_reason", None),
         total_discovered         |-> get(data, "total_discovered", 0),
         total_extracted          |-> get(data, "total_extracted", 0),
         total_failed             |-> get(data, "total_failed", 0),
         total_merged             |-> get(data, "total_merged", 0),
         source_stats             |-> get(data, "source_stats", <<>>) ],
       LAMBDA st :
         IF DOMAIN st.homepage_url_index = {}
         THEN [st EXCEPT !.homepage_url_index = rebuild_url_index(st)]
         ELSE st)

\* load: the data after the version check
migrated(data) ==
  With(get(data, "version", 1), LAMBDA version :
    IF version < STATE_VERSION THEN migrate(data, version) ELSE data)

\* CollectionState.load(path) of a file holding the JSON object data
load_json(data) ==
  With(migrated(data), LAMBDA data1 :
    IF \E key \in DOMAIN get(data1, "products", <<>>) :
         product_raises(with_defaults(data1.products[key])) # NoRaise
    THEN [state |-> new, raised |-> "TypeError"]
    ELSE [state |-> state_of(data1), raised |-> NoRaise])

\* an entity with every field set
FullEntity ==
  [ name            |-> <<"F","o","o">>,
    homepage_url    |-> UrlFoo1,
    saashub_url     |-> SaaSHubBase \o <<"/","f","o","o">>,
    saashub_id      |-> <<"s","1">>,
    seed_query      |-> <<"n","o","t","i","o","n">>,
    source          |-> "producthunt",
    source_url      |-> <<"p","h","/","1">>,
    producthunt_id  |-> <<"1">>,
    producthunt_url |-> <<"p","h","/","1">>,
    votes_count     |-> 25,
    tagline         |-> <<"t","a","g">>,
    topics          |-> {"ai"} ]

OlderFields == {"name", "homepage_url", "saashub_url", "saashub_id", "seed_query"}

Restrict(f, S) == [k \in S |-> f[k]]

\* the first entity of a file: any of the newer fields may be missing
FirstEntities == {Restrict(FullEntity, OlderFields \cup S) : S \in SUBSET NewerFields}

\* the entities after it: version 1 entities, a bare name, an entity without name
OtherEntities ==
  { [name |-> <<"B","a","r">>, homepage_url |-> UrlFoo2, extracted |-> TRUE],
    [name |-> <<"B","a","z">>],
    [name |-> <<"Q","u","x">>, homepage_url |-> UrlBar],
    [homepage_url |-> UrlBar] }

\* the storage key of the i-th entity of a file
StateKey(i) == [j \in 1..i |-> "k"]

\* the products dicts a state file may hold, in file order
ProductLists ==
  {<<>>} \cup
  UNION { {<<first>> \o rest : first \in FirstEntities, rest \in [1..n -> OtherEntities]}
          : n \in 0..(MaxProducts - 1) }

products_of(list) ==
  [ product_keys |-> [i \in 1..Len(list) |-> StateKey(i)],
    products     |-> [key \in {StateKey(i) : i \in 1..Len(list)} |-> list[Len(key)]] ]

\* the JSON objects a state file may hold: the version may be missing, and so
\* may the products and the index
StateFiles ==
  { version @@ products @@ index :
      version  \in {<<>>, [version |-> 1], [version |-> 2]},
      products \in {<<>>} \cup {products_of(list) : list \in ProductLists},
      index    \in {<<>>, [homepage_url_index |-> (normalize_url(UrlFoo1) :> StateKey(1))]} }

\* CollectionState.load(path); one file per behaviour
LoadState ==
  /\ cdata = <<>>
  /\ \E data \in StateFiles :
       /\ cdata' = data
       /\ cres' = load_json(data)
  /\ UNCHANGED <<mvars, hist, not_cvars, lvars, tvars>>

\* ------------------------- producthunt.py, url_discovery.py: homepage resolvers

MaxLinks == 2

\* the characters of a resolved URL, in code point order
CharOrder ==
  << "-", ".", "/", "0", "1", "2", "3", "4", "5", "6", "7", "8", "9", ":",
     "a", "b", "c", "d", "e", "f", "g", "h", "i", "j", "k", "l", "m", "n", "o",
     "p", "q", "r", "s", "t", "u", "v", "w", "x", "y", "z" >>

ord(c) == CHOOSE i \in 1..Len(CharOrder) : CharOrder[i] = c

\* a < b over str
str_less(a, b) ==
  \/ Len(a) < Len(b) /\ SubSeq(b, 1, Len(a)) = a
  \/ \E i \in 1..Min({Len(a), Len(b)}) :
       /\ SubSeq(a, 1, i - 1) = SubSeq(b, 1, i - 1)
       /\ ord(a[i]) < ord(b[i])

\* ''.join(c for c in s if not c.isdigit())
no_digits(s) == SelectSeq(s, LAMBDA c : c \notin {"0","1","2","3","4","5","6","7","8","9"})

\* resolve_homepage_url: skip_domains
skip_domains ==
  { <<"s","c","h","e","m","a",".","o","r","g">>,
    <<"w","3",".","o","r","g">>,
    <<"g","o","o","g","l","e",".","c","o","m">>,
    <<"g","o","o","g","l","e","t","a","g","m","a","n","a","g","e","r",".","c","o","m">>,
    <<"f","a","c","e","b","o","o","k",".","c","o","m">>,
    <<"t","w","i","t","t","e","r",".","c","o","m">>,
    <<"x",".","c","o","m">>,
    <<"l","i","n","k","e","d","i","n",".","c","o","m">>,
    <<"y","o","u","t","u","b","e",".","c","o","m">>,
    <<"y","o","u","t","u",".","b","e">>,
    <<"i","n","s","t","a","g","r","a","m",".","c","o","m">>,
    <<"g","i","t","h","u","b",".","c","o","m">>,
    <<"c","l","o","u","d","f","l","a","r","e",".","c","o","m">>,
    <<"c","l","o","u","d","f","l","a","r","e","i","n","s","i","g","h","t","s",".","c","o","m">>,
    <<"s","e","g","m","e","n","t",".","c","o","m">>,
    <<"i","m","g","i","x",".","n","e","t">>,
    <<"l","u",".","m","a">>,
    <<"f","o","n","t","s",".","g","o","o","g","l","e","a","p","i","s",".","c","o","m">>,
    <<"f","o","n","t","s",".","g","s","t","a","t","i","c",".","c","o","m">>,
    <<"s","e","g","m","e","n","t","-","c","d","n",".","p","r","o","d","u","c","t","h","u","n","t",".","c","o","m">>,
    <<"p","r","o","d","u","c","t","h","u","n","t",".","a","p","p",".","l","i","n","k">>,
    <<"a","p","p","s",".","a","p","p","l","e",".","c","o","m">>,
    <<"p","l","a","y",".","g","o","o","g","l","e",".","c","o","m">>,
    <<"i","t","u","n","e","s",".","a","p","p","l","e",".","c","o","m">>,
    <<"a","p","p","s","t","o","r","e",".","c","o","m">>,
    <<"o","n","e","l","i","n","k",".","m","e">>,
    <<"b","r","a","n","c","h",".","i","o">>,
    <<"a","d","j","u","s","t",".","c","o","m">>,
    <<"a","p","p",".","l","i","n","k">>,
    <<"a","p","p","s","t","o",".","r","e">>,
    <<"h","e","l","p",".","p","r","o","d","u","c","t","h","u","n","t",".","c","o","m">>,
    <<"p","h","-","s","t","a","t","i","c",".","i","m","g","i","x",".","n","e","t">>,
    <<"p","h","-","f","i","l","e","s",".","i","m","g","i","x",".","n","e","t">>,
    <<"p","h","-","a","v","a","t","a","r","s",".","i","m","g","i","x",".","n","e","t">> }

\* resolve_homepage_url: the extensions of an asset path
AssetExtensions ==
  { <<".","p","n","g">>,
    <<".","j","p","g">>,
    <<".","s","v","g">>,
    <<".","g","i","f">>,
    <<".","c","s","s">>,
    <<".","j","s">> }

\* resolve_homepage_url: the loop body skips the url
launch_skips(url) ==
  With(urlparse(url), LAMBDA parsed :
  With(lower(parsed.netloc), LAMBDA domain :
  With(lower(parsed.path), LAMBDA path :
    \/ \E skipped_domain \in skip_domains : contains(domain, skipped_domain)
    \/ \E ext \in AssetExtensions : contains(path, ext))))

\* resolve_homepage_url: clean_domain of a url
clean_domain(url) ==
  With(urlparse(url), LAMBDA parsed :
  With(lower(parsed.netloc), LAMBDA domain :
    replace(domain, <<"w","w","w",".">>, <<>>)))

\* resolve_homepage_url: the score of a candidate url for the product
launch_score(url, product) ==
  With(clean_domain(url), LAMBDA clean :
  With(cut_at(clean, {"."}, 1), LAMBDA domain_base :
  With(lower(product.name), LAMBDA lowered :
  With(replace(lowered, <<" ">>, <<>>), LAMBDA unspaced :
  With(replace(unspaced, <<"-">>, <<>>), LAMBDA product_name_lower :
  With(lower(product.slug), LAMBDA slug_lowered :
  With(replace(slug_lowered, <<"-">>, <<>>), LAMBDA slug_lower :
  With(no_digits(product_name_lower), LAMBDA name_no_numbers :
  With(no_digits(slug_lower), LAMBDA slug_no_numbers :
    IF domain_base = slug_lower \/ domain_base = product_name_lower THEN 1000
    ELSE IF domain_base = slug_no_numbers \/ domain_base = name_no_numbers THEN 900
    ELSE IF Len(slug_lower) > 3 /\ contains(domain_base, slug_lower) THEN 500
    ELSE IF Len(name_no_numbers) > 3 /\ contains(domain_base, name_no_numbers) THEN 400
    ELSE IF Len(domain_base) > 3 /\ contains(slug_lower, domain_base) THEN 200
    ELSE IF Len(domain_base) > 3 /\ contains(name_no_numbers, domain_base) THEN 150
    ELSE 1)))))))))

\* resolve_homepage_url: candidates, as (score, url) pairs
launch_candidates(external_urls, product) ==
  { [score |-> launch_score(external_urls[i], product),
     url   |-> <<"h","t","t","p","s",":","/","/">> \o clean_domain(external_urls[i])] :
      i \in {j \in 1..Len(external_urls) : ~launch_skips(external_urls[j])} }

\* (score, url) tuples: a <= b
pair_leq(a, b) ==
  \/ a.score < b.score
  \/ a.score = b.score /\ (a.url = b.url \/ str_less(a.url, b.url))

\* resolve_homepage_url(product) on a launch page: the first candidate of the
\* list sorted in reverse, when its score is at least 100
resolve_homepage_url(product, page) ==
  IF ~Truthy(product.producthunt_url) THEN None
  ELSE IF ~page.html THEN None
  ELSE IF page.external_urls = <<>> THEN None
  ELSE With(launch_candidates(page.external_urls, product), LAMBDA candidates :
         IF candidates = {} THEN None
         ELSE With(CHOOSE best \in candidates : \A c \in candidates : pair_leq(c, best),
                   LAMBDA best : IF best.score >= 100 THEN best.url ELSE None))

\* url_discovery.py: SKIP_DOMAINS
SKIP_DOMAINS ==
  { <<"t","w","i","t","t","e","r",".","c","o","m">>,
    <<"x",".","c","o","m">>,
    <<"l","i","n","k","e","d","i","n",".","c","o","m">>,
    <<"f","a","c","e","b","o","o","k",".","c","o","m">>,
    <<"g","i","t","h","u","b",".","c","o","m">>,
    <<"y","o","u","t","u","b","e",".","c","o","m">>,
    <<"i","n","s","t","a","g","r","a","m",".","c","o","m">>,
    <<"t","i","k","t","o","k",".","c","o","m">>,
    <<"c","h","r","o","m","e",".","g","o","o","g","l","e",".","c","o","m">>,
    <<"a","d","d","o","n","s",".","m","o","z","i","l","l","a",".","o","r","g">>,
    <<"m","i","c","r","o","s","o","f","t","e","d","g","e",".","m","i","c","r","o","s","o","f","t",".","c","o","m">>,
    <<"a","p","p","s",".","a","p","p","l","e",".","c","o","m">>,
    <<"p","l","a","y",".","g","o","o","g","l","e",".","c","o","m">>,
    <<"i","t","u","n","e","s",".","a","p","p","l","e",".","c","o","m">>,
    <<"p","r","o","d","u","c","t","h","u","n","t",".","c","o","m">>,
    <<"c","r","u","n","c","h","b","a","s","e",".","c","o","m">>,
    <<"a","l","t","e","r","n","a","t","i","v","e","t","o",".","n","e","t">>,
    <<"g","2",".","c","o","m">>,
    <<"c","a","p","t","e","r","r","a",".","c","o","m">>,
    <<"t","r","u","s","t","p","i","l","o","t",".","c","o","m">>,
    <<"s","i","m","i","l","a","r","w","e","b",".","c","o","m">>,
    <<"a","h","r","e","f","s",".","c","o","m">>,
    <<"m","o","z",".","c","o","m">>,
    <<"r","e","d","d","i","t",".","c","o","m">>,
    <<"b","u","n","n","y",".","n","e","t">>,
    <<"s","p","i","n","t","h","e","w","h","e","e","l","o","f","n","a","m","e","s",".","c","o","m">>,
    <<"j","a","v","a","s","c","r","i","p","t",":">>,
    <<"m","a","i","l","t","o",":">> }

\* _extract_product_slug(saashub_url)
extract_product_slug(saashub_url) ==
  With(urlparse(saashub_url).path, LAMBDA path :
    IF path = <<>> THEN <<>>
    ELSE With(rstrip(path, {"/"}), LAMBDA right :
         With(SubSeq(right, IF find(right, {c \in {right[k] : k \in 1..Len(right)} : c # "/"}, 1) = 0
                            THEN 1
                            ELSE find(right, {c \in {right[k] : k \in 1..Len(right)} : c # "/"}, 1),
                     Len(right)),
              LAMBDA stripped : cut_at(stripped, {"/"}, 1))))

\* url.split(param)[0] when param is in url
cut_from(url, param) ==
  IF contains(url, param)
  THEN SubSeq(url, 1, Min({i \in 1..Len(url) : startswith(SubSeq(url, i, Len(url)), param)}) - 1)
  ELSE url

\* _clean_url(url)
clean_url(url) ==
  IF ~Truthy(url) THEN url
  ELSE With(cut_from(url, <<"?","r","e","f","=">>), LAMBDA u1 :
       With(cut_from(u1, <<"?","u","t","m","_">>), LAMBDA u2 :
       With(cut_from(u2, <<"&","r","e","f","=">>), LAMBDA u3 :
       With(cut_from(u3, <<"&","u","t","m","_">>), LAMBDA u4 :
         rstrip(u4, {"/"})))))

\* len([p for p in path.split("/") if p])
path_depth(path) ==
  Cardinality({i \in 1..Len(path) : path[i] # "/" /\ (i = 1 \/ path[i - 1] = "/")})

\* the slug is in the domain once "-", "_" and "." are removed from both
slug_in_domain(href, product_slug) ==
  With(lower(urlparse(href).netloc), LAMBDA domain :
  With(SelectSeq(lower(product_slug), LAMBDA c : c \notin {"-", "_"}), LAMBDA slug_lower :
  With(SelectSeq(domain, LAMBDA c : c \notin {"-", "_", "."}), LAMBDA domain_clean :
    slug_lower # <<>> /\ contains(domain_clean, slug_lower))))

\* any(domain in href.lower() for domain in SKIP_DOMAINS)
skipped(href) == With(lower(href), LAMBDA lowered : \E d \in SKIP_DOMAINS : contains(lowered, d))

\* _is_likely_homepage(href, product_slug)
is_likely_homepage(href, product_slug) ==
  IF ~Truthy(href) \/ ~startswith(href, <<"h","t","t","p">>) THEN FALSE
  ELSE IF skipped(href) THEN FALSE
  ELSE IF slug_in_domain(href, product_slug) THEN TRUE
  ELSE path_depth(rstrip(urlparse(href).path, {"/"})) <= 1

\* extract_homepage_from_saashub: score_link(href)
score_link(href, product_slug) ==
  With(urlparse(href), LAMBDA parsed :
  With(lower(parsed.netloc), LAMBDA domain :
    (IF slug_in_domain(href, product_slug) THEN 100 ELSE 0)
      - path_depth(rstrip(parsed.path, {"/"})) * 10
      - (Cardinality({i \in 1..Len(domain) : domain[i] = "."}) + 1) * 5))

\* extract_homepage_from_saashub, strategy 4: candidate_links
candidate_links(external) ==
  LET F[i \in 0..Len(external)] ==
        IF i = 0 THEN <<>>
        ELSE IF \/ ~Truthy(external[i])
                \/ ~startswith(external[i], <<"h","t","t","p">>)
                \/ skipped(external[i])
                \/ contains(lower(external[i]), <<"s","a","a","s","h","u","b",".","c","o","m">>)
             THEN F[i - 1]
             ELSE Append(F[i - 1], clean_url(external[i]))
  IN  F[Len(external)]

\* candidate_links.sort(key=score_link, reverse=True)[0]: the sort is stable
top_link(links, product_slug) ==
  links[Min({i \in 1..Len(links) :
               \A j \in 1..Len(links) :
                 score_link(links[j], product_slug) <= score_link(links[i], product_slug)})]

\* strategy 1: the Website button
strategy_onclick(page) ==
  IF page.onclick = None THEN None
  ELSE With(clean_url(page.onclick), LAMBDA url :
         IF Truthy(url) /\ ~skipped(url) THEN url ELSE None)

\* strategy 2: URLs whose domain is the slug; the shortest path first
strategy_slug(page, product_slug) ==
  IF ~Truthy(product_slug) \/ page.slug_urls = <<>> THEN None
  ELSE With(SelectSeq([i \in 1..Len(page.slug_urls) |->
                         clean_url(rstrip(page.slug_urls[i], {"'", ")", ";", "\""}))],
                      LAMBDA c : Truthy(c) /\ ~(\E d \in SKIP_DOMAINS : contains(c, d))),
            LAMBDA cleaned :
              IF cleaned = <<>> THEN None
              ELSE cleaned[Min({i \in 1..Len(cleaned) :
                     \A j \in 1..Len(cleaned) :
                       Len(urlparse(cleaned[i]).path) <= Len(urlparse(cleaned[j]).path)})])

\* strategy 3: the first referral or "Visit Website" href that is a likely homepage
strategy_patterns(page, product_slug) ==
  With(SelectSeq([i \in 1..Len(page.referrals) |-> clean_url(page.referrals[i])],
                 LAMBDA url : is_likely_homepage(url, product_slug)),
       LAMBDA likely : IF likely = <<>> THEN None ELSE likely[1])

\* strategy 4: the best external link, whatever its score
strategy_links(page, product_slug) ==
  With(candidate_links(page.external), LAMBDA links :
    IF links = <<>> THEN None ELSE top_link(links, product_slug))

\* extract_homepage_from_saashub(saashub_url) on the page the crawler returned
extract_homepage_from_saashub(saashub_url, page) ==
  With(extract_product_slug(saashub_url), LAMBDA product_slug :
    IF ~page.success THEN None
    ELSE IF strategy_onclick(page) # None THEN strategy_onclick(page)
    ELSE IF strategy_slug(page, product_slug) # None THEN strategy_slug(page, product_slug)
    ELSE IF strategy_patterns(page, product_slug) # None
         THEN strategy_patterns(page, product_slug)
    ELSE strategy_links(page, product_slug))

\* the product whose launch page is resolved
LaunchProduct ==
  [ name            |-> <<"N","o","t","i","o","n">>,
    slug            |-> <<"n","o","t","i","o","n">>,
    producthunt_url |-> <<"h","t","t","p","s",":","/","/","w","w","w",".","p","r","o","d","u","c","t","h","u","n","t",".","c","o","m","/","p","o","s","t","s","/","n","o","t","i","o","n","?","r","e","f","=","x">> ]

\* the external URLs a launch page may hold
LaunchLinks ==
  { <<"h","t","t","p","s",":","/","/","w","w","w",".","n","o","t","i","o","n",".","s","o","/","p","r","o","d","u","c","t">>,
    <<"h","t","t","p","s",":","/","/","g","e","t","n","o","t","i","o","n",".","c","o","m">>,
    <<"h","t","t","p","s",":","/","/","n","o","t","i",".","i","o">>,
    <<"h","t","t","p","s",":","/","/","o","t","h","e","r",".","c","o","m","/","a","b","o","u","t">>,
    <<"h","t","t","p","s",":","/","/","g","i","t","h","u","b",".","c","o","m","/","n","o","t","i","o","n">>,
    <<"h","t","t","p","s",":","/","/","c","d","n",".","o","t","h","e","r",".","c","o","m","/","a",".","p","n","g">> }

\* the directory page resolved
DirectoryUrl == <<"h","t","t","p","s",":","/","/","w","w","w",".","s","a","a","s","h","u","b",".","c","o","m","/","n","o","t","i","o","n">>

\* the external links a directory page may hold
DirectoryLinks ==
  { <<"h","t","t","p","s",":","/","/","o","t","h","e","r",".","c","o","m">>,
    <<"h","t","t","p","s",":","/","/","b","l","o","g",".","n","o","t","i","o","n",".","s","o","/","x">>,
    <<"h","t","t","p","s",":","/","/","t","w","i","t","t","e","r",".","c","o","m","/","n","o","t","i","o","n">>,
    <<"h","t","t","p","s",":","/","/","e","x","a","m","p","l","e",".","o","r","g","/","a","/","b">> }

SeqsUpTo(S, n) == UNION {[1..k -> S] : k \in 0..n}

LaunchPages ==
  { [kind |-> "launch", html |-> html, external_urls |-> urls] :
      html \in BOOLEAN, urls \in SeqsUpTo(LaunchLinks, MaxLinks) }

DirectoryPages ==
  { [kind |-> "directory", success |-> success, onclick |-> onclick,
     slug_urls |-> slug_urls, referrals |-> referrals, external |-> external] :
      success   \in BOOLEAN,
      onclick   \in {None, <<"h","t","t","p","s",":","/","/","w","w","w",".","n","o","t","i","o","n",".","s","o","/","?","r","e","f","=","s","a","a","s","h","u","b">>},
      slug_urls \in {<<>>, <<<<"h","t","t","p","s",":","/","/","n","o","t","i","o","n",".","c","o","m","/">>>>},
      referrals \in {<<>>, <<<<"h","t","t","p","s",":","/","/","o","t","h","e","r",".","c","o","m","/","a","/","b","/","c">>>>},
      external  \in SeqsUpTo(DirectoryLinks, MaxLinks) }

NotResolver == UNCHANGED <<mvars, hist, not_rvars, lvars, tvars>>

\* resolve_homepage_url(product); one page per behaviour
ResolveLaunchPage ==
  /\ rpage.kind = "none"
  /\ \E page \in LaunchPages :
       /\ rpage' = page
       /\ rfound' = resolve_homepage_url(LaunchProduct, page)
  /\ NotResolver

\* extract_homepage_from_saashub(saashub_url); one page per behaviour
ResolveDirectoryPage ==
  /\ rpage.kind = "none"
  /\ \E page \in DirectoryPages :
       /\ rpage' = page
       /\ rfound' = extract_homepage_from_saashub(DirectoryUrl, page)
  /\ NotResolver

NextResolve ==
  \/ ResolveLaunchPage
  \/ ResolveDirectoryPage

\* ------------------------------- producthunt.py: resolve_homepage_urls_batch

MaxBatch == 4

\* the default of the concurrency parameter, and the value build_targets passes
DefaultConcurrency == 3

\* a semaphore that never blocks
semaphore_always_free(value) == TRUE

\* asyncio.Semaphore: acquire() goes through without waiting
semaphore_free(value) == value > 0

\* a resolve_one that stores whatever resolve_homepage_url returned
store_any(results, id, url) == Put(results, id, url)

\* resolve_one: if url: results[product.id] = url
store_result(results, id, url) == IF Truthy(url) THEN Put(results, id, url) ELSE results

\* the URLs a resolution may return
BatchUrls == {UrlFoo1, UrlBar}

NotBatch == UNCHANGED <<mvars, hist, not_bvars, lvars, tvars>>

\* resolve_homepage_urls_batch(products, concurrency): the semaphore is made
\* and gather starts one resolve_one task per product
BatchStart ==
  /\ bpc = "idle"
  /\ \E n \in 1..MaxBatch, concurrency \in 1..DefaultConcurrency :
       /\ bconc' = concurrency
       /\ bsem' = concurrency
       /\ btask' = [id \in 1..n |-> [pc |-> "acquire", attempts |-> 0, outcome |-> "none"]]
  /\ bpc' = "running"
  /\ bresults' = <<>>
  /\ NotBatch

\* resolve_one: async with semaphore, entered; resolve_homepage_url begins
BatchAcquire ==
  /\ bpc = "running"
  /\ \E id \in DOMAIN btask :
       /\ btask[id].pc = "acquire"
       /\ semaphore_free(bsem)
       /\ bsem' = bsem - 1
       /\ btask' = [btask EXCEPT ![id].pc = "resolve", ![id].attempts = @ + 1]
  /\ UNCHANGED <<bpc, bconc, bresults>>
  /\ NotBatch

\* resolve_homepage_url returned a URL; the task goes to its sleep of 0.5 s
BatchResolved ==
  /\ bpc = "running"
  /\ \E id \in DOMAIN btask, url \in BatchUrls :
       /\ btask[id].pc = "resolve"
       /\ bresults' = store_result(bresults, id, url)
       /\ btask' = [btask EXCEPT ![id].pc = "sleep", ![id].outcome = "found"]
  /\ UNCHANGED <<bpc, bconc, bsem>>
  /\ NotBatch

\* resolve_homepage_url returned None: no page, no candidate, a timeout or
\* another exception it caught
BatchUnresolved ==
  /\ bpc = "running"
  /\ \E id \in DOMAIN btask :
       /\ btask[id].pc = "resolve"
       /\ bresults' = store_result(bresults, id, None)
       /\ btask' = [btask EXCEPT ![id].pc = "sleep", ![id].outcome = "failed"]
  /\ UNCHANGED <<bpc, bconc, bsem>>
  /\ NotBatch

\* the sleep is over and the semaphore is released
BatchRelease ==
  /\ bpc = "running"
  /\ \E id \in DOMAIN btask :
       /\ btask[id].pc = "sleep"
       /\ bsem' = bsem + 1
       /\ btask' = [btask EXCEPT ![id].pc = "done"]
  /\ UNCHANGED <<bpc, bconc, bresults>>
  /\ NotBatch

\* gather is complete: return results
BatchReturn ==
  /\ bpc = "running"
  /\ \A id \in DOMAIN btask : btask[id].pc = "done"
  /\ bpc' = "returned"
  /\ UNCHANGED <<bconc, bsem, btask, bresults>>
  /\ NotBatch

NextBatch ==
  \/ BatchStart
  \/ BatchAcquire
  \/ BatchResolved
  \/ BatchUnresolved
  \/ BatchRelease
  \/ BatchReturn

\* ------------------------------------- collect.py: the API keys of the run

\* both keys are set
AllKeys == [saashub |-> TRUE, openai |-> TRUE]

\* the keys the environment may hold
KeySets == [saashub : BOOLEAN, openai : BOOLEAN]

\* MarketIntelCollector(): the keys are read from the environment; the
\* environment is chosen before the first run
Configure ==
  /\ pc = "idle"
  /\ calls = 0
  /\ ~disk_exists
  /\ creds = AllKeys
  /\ \E keys \in KeySets \ {AllKeys} : creds' = keys
  /\ UNCHANGED <<mvars, hist, not_kvars, lvars, tvars>>

\* raise ValueError: run() is left, main_legacy exits with status 1
Raised ==
  /\ Idle(FALSE)
  /\ NoSave
  /\ NotCalled
  /\ last_outcome' = NoOutcome
  /\ UNCHANGED <<output, skip, budget, calls_before>>
  /\ UNCHANGED <<hist, nvars, lvars, tvars>>

\* discover_products: if not self.saashub_api_key
DiscoverNoKey ==
  /\ pc = "discover"
  /\ ~creds.saashub
  /\ Raised

\* extract_product_info: if not self.openai_api_key
ExtractNoKey ==
  /\ pc = "extract_begin"
  /\ ~skip.extraction
  /\ ~creds.openai
  /\ Raised

NextKeys ==
  \/ Configure
  \/ RunStart
  \/ DiscoverNoKey
  \/ DiscoverSkipSeed
  \/ DiscoverSeedOk
  \/ DiscoverSeedRateLimited
  \/ DiscoverSeedApiError
  \/ DiscoverEnd
  \/ HomepagesBegin
  \/ HomepageFound
  \/ HomepageNotFound
  \/ HomepageError
  \/ HomepagesEnd
  \/ ExtractBegin
  \/ ExtractNoKey
  \/ ExtractNoContent
  \/ ExtractWritten
  \/ ExtractMarked
  \/ ExtractEnd

NoSkip == [discovery |-> FALSE, homepages |-> FALSE, extraction |-> FALSE]

\* no process running, no target file, nothing written
InitOthers ==
  /\ state = new
  /\ output = <<>>
  /\ pc = "idle"
  /\ seed_i = 1
  /\ work = <<>>
  /\ item_i = 1
  /\ refused = FALSE
  /\ resumed = FALSE
  /\ calls = 0
  /\ streak = [now |-> 0, before_ok |-> 0]
  /\ calls_before = 0
  /\ persisted = RateLimiter
  /\ waiters = [t \in Tasks |-> Out]
  /\ wait_returns = [source \in RateLimitSource |-> <<>>]
  /\ sm = NoTargets
  /\ sfiles = <<>>
  /\ spc = [pc |-> "idle", i |-> 1, n |-> 0]
  /\ sghost = [before |-> None, after |-> None]
  /\ lfile = <<>>
  /\ lres = [m |-> NoTargets, raised |-> NoRaise]
  /\ cdata = <<>>
  /\ cres = [state |-> new, raised |-> NoRaise]
  /\ rpage = [kind |-> "none"]
  /\ rfound = None
  /\ bpc = "idle"
  /\ bconc = DefaultConcurrency
  /\ bsem = 0
  /\ btask = <<>>
  /\ bresults = <<>>
  /\ creds = AllKeys
  /\ last_outcome = NoOutcome
  /\ hist = <<>>
  /\ clock = StartTime
  /\ limiter = RateLimiter
  /\ delays = [source \in RateLimitSource |-> <<>>]
  /\ exec = NoExec
  /\ ops = 0
  /\ tm = NoTargets
  /\ tfile = <<>>
  /\ tpc = "down"
  /\ batch = <<>>
  /\ ti = 1
  /\ treason = None

\* no state file either; run() is called with every phase enabled
Init ==
  /\ InitOthers
  /\ disk_exists = FALSE
  /\ disk = new
  /\ skip = NoSkip
  /\ budget = MaxCalls

Next ==
  \/ RunStart
  \/ DiscoverSkipSeed
  \/ DiscoverSeedOk
  \/ DiscoverSeedRateLimited
  \/ DiscoverSeedApiError
  \/ DiscoverEnd
  \/ HomepagesBegin
  \/ HomepageFound
  \/ HomepageNotFound
  \/ HomepageError
  \/ HomepagesEnd
  \/ ExtractBegin
  \/ ExtractCrawlFailed
  \/ ExtractErrorPayload
  \/ ExtractJsonError
  \/ ExtractParseException
  \/ ExtractNoContent
  \/ ExtractException
  \/ ExtractWritten
  \/ ExtractMarked
  \/ ExtractEnd
  \/ Crash
  \/ Interrupt

\* the legacy pipeline from a missing state file, every phase enabled
Spec == Init /\ [][Next]_vars

\* the state file after discovery registered the two alternatives of the first
\* seed and the homepage phase resolved a homepage for each
Resolved ==
  LET found == register_alternatives(new, Seeds[1], <<Alt1, Alt2>>, 1)
      seeds == mark_seed_processed(mark_seed_processed(found, Seeds[1]), Seeds[2])
  IN  set_homepage(set_homepage(seeds, seeds.product_keys[1], UrlFoo1),
                   seeds.product_keys[2], UrlBar)

\* run() is called with skip_discovery and skip_homepages on that state file
InitExtract ==
  /\ InitOthers
  /\ disk_exists = TRUE
  /\ disk = Resolved
  /\ skip = [discovery |-> TRUE, homepages |-> TRUE, extraction |-> FALSE]
  /\ budget = MaxExtractCalls

NextExtract ==
  \/ RunStart
  \/ HomepagesBegin
  \/ ExtractBegin
  \/ ExtractCrawlFailed
  \/ ExtractErrorPayload
  \/ ExtractJsonError
  \/ ExtractParseException
  \/ ExtractNoContent
  \/ ExtractException
  \/ ExtractWritten
  \/ ExtractMarked
  \/ ExtractEnd
  \/ Crash
  \/ Interrupt

\* the extraction phase alone, run after run, on two resolved entities
SpecExtract == InitExtract /\ [][NextExtract]_vars

\* add_product called directly on a fresh store
SpecState == Init /\ [][AddProduct]_vars

NextLimiter ==
  \/ TimePasses
  \/ Wait
  \/ HandleRateLimit
  \/ ExecStart
  \/ ExecWait
  \/ ExecReturns
  \/ ExecRaises
  \/ ExecBackoff
  \/ ExecWake

\* the rate limiter driven through its three operations
SpecLimiter == Init /\ [][NextLimiter]_vars

NextTargets ==
  \/ Launch
  \/ AddTarget
  \/ AddTargetDuplicate
  \/ ExtractTargetsBegin
  \/ TargetWait
  \/ TargetCrawlFailed
  \/ TargetErrorPayload
  \/ TargetJsonError
  \/ TargetParseException
  \/ TargetNoContent
  \/ TargetException
  \/ TargetBackoff
  \/ TargetWritten
  \/ TargetCompleted
  \/ ExtractTargetsEnd
  \/ TargetCrash

InitTargets ==
  /\ InitOthers
  /\ disk_exists = FALSE
  /\ disk = new
  /\ skip = NoSkip
  /\ budget = MaxTargetCalls

\* the target-list pipeline: build_targets, then extract_targets, run after run
SpecTargets == InitTargets /\ [][NextTargets]_vars

\* ------------------------------------------------------------ properties

Range(seq) == {seq[i] : i \in 1..Len(seq)}

\* C1: the durable output holds at most one row per entity, whatever runs,
\* crashes and interrupts came before.
C1_OneRowPerEntity ==
  \A i, j \in 1..Len(output) : output[i].entity = output[j].entity => i = j

\* C2, as stated: in a run that follows a run that returned, discovery adds no
\* entity: the entity map and total_discovered stay as they were loaded.
C2_SecondRunAddsNothing ==
  [][(resumed /\ pc = "discover" /\ pc' = "discover")
       => /\ state'.products = state.products
          /\ state'.total_discovered = state.total_discovered]_vars

\* C2, amended: discovery issues a query only for a seed that is not in
\* processed_seeds, and when every seed of the list is in processed_seeds the
\* discovery loop leaves the entity map and total_discovered unchanged.
C2_ProcessedSeedsGate ==
  [][(pc = "discover" /\ pc' = "discover")
       => /\ calls' # calls => Seeds[seed_i] \notin Range(state.processed_seeds)
          /\ Range(Seeds) \subseteq Range(state.processed_seeds)
               => /\ state'.products = state.products
                  /\ state'.total_discovered = state.total_discovered
                  /\ calls' = calls]_vars

\* a second run, after a run that returned, has walked the whole seed list, every
\* seed processed, without a call, with entities in the store
C2_Witness ==
  /\ resumed
  /\ pc = "discover"
  /\ seed_i > Len(Seeds)
  /\ Range(Seeds) \subseteq Range(state.processed_seeds)
  /\ state.products # <<>>
  /\ state = disk
  /\ calls = calls_before

\* C3: no two stored entities have homepage URLs that normalize to the same
\* non-empty key.
C3_UniqueHomepageKeys ==
  \A k1, k2 \in DOMAIN state.products :
    (/\ k1 # k2
     /\ Truthy(normalize_url(state.products[k1].homepage_url)))
      => normalize_url(state.products[k1].homepage_url)
           # normalize_url(state.products[k2].homepage_url)

\* the Collection State a step leaves behind: the saved one when the run ended
After == IF pc' = "idle" THEN disk' ELSE state'

\* C4: an extraction failure classified as a rate limit raises the counter by
\* one and halts exactly when that makes three, the halt reason then holding the
\* failure's error message; another failure leaves the counter and halts
\* nothing; a success sets the counter to zero; nothing else in a run lowers
\* the counter, and an unhalted state never counts more than two.
C4_HaltAtThirdRateLimit ==
  /\ [](~state.halted => state.consecutive_llm_failures < 3)
  /\ [][/\ (calls' # calls /\ ~last_outcome'.ok /\ last_outcome'.is_rate_limit)
            => /\ After.consecutive_llm_failures = state.consecutive_llm_failures + 1
               /\ After.halted <=> state.consecutive_llm_failures + 1 = 3
               /\ After.halted <=> pc' = "idle"
               /\ After.halted
                    => After.halt_reason[Len(After.halt_reason)] = last_outcome'.error
        /\ (calls' # calls /\ ~last_outcome'.ok /\ ~last_outcome'.is_rate_limit)
            => /\ state'.consecutive_llm_failures = state.consecutive_llm_failures
               /\ ~state'.halted
               /\ pc' = "extract"
        /\ (pc = "extract_mark" /\ pc' = "extract")
            => state'.consecutive_llm_failures = 0 /\ ~state'.halted
        /\ (pc # "idle" /\ pc' # "idle"
              /\ state'.consecutive_llm_failures < state.consecutive_llm_failures)
            => pc = "extract_mark"]_vars

\* two rate-limit failures, then a success, then two more rate-limit failures:
\* the counter stands at two and the state is not halted
C4_Witness ==
  /\ streak = [now |-> 2, before_ok |-> 2]
  /\ pc = "extract"
  /\ ~state.halted
  /\ state.consecutive_llm_failures = 2
  /\ state.total_llm_failures = 4

\* C5: a halted state stays halted while the process lives, and on a halted
\* state file run() returns at once: no call, no output row, the file unchanged.
C5_HaltedIsTerminal ==
  [][/\ state.halted => (state'.halted \/ pc' = "idle")
     /\ disk.halted => /\ disk' = disk
                       /\ calls' = calls
                       /\ output' = output
                       /\ pc' = "idle"]_vars

\* run() was invoked on a halted state file and returned at its halted check
C5_Witness == refused /\ disk.halted /\ pc = "idle" /\ calls > 0

\* C6: two records of different sources, added to an empty store, whose
\* homepage URLs differ only in scheme, case, www. prefix and trailing slash
\* leave one entity, of source "merged", and total_merged = 1.
C6_VariantsMerge ==
  (/\ Len(hist) = 2
   /\ hist[1].source # hist[2].source
   /\ hist[1].homepage_url \in SiteVariants
   /\ hist[2].homepage_url \in SiteVariants)
    => /\ Cardinality(DOMAIN state.products) = 1
       /\ \A k \in DOMAIN state.products : state.products[k].source = "merged"
       /\ state.total_merged = 1

\* https://Foo.com/ from one source, then http://www.foo.com from the other
C6_Witness ==
  /\ Len(hist) = 2
  /\ hist[1].source # hist[2].source
  /\ hist[1].homepage_url = UrlFoo1
  /\ hist[2].homepage_url = UrlFoo2
  /\ state.total_merged = 1

\* C7: the dedup index has exactly one entry per stored entity with a non-empty
\* homepage URL, under the normalized URL, naming the entity's storage key.
C7_IndexMirrorsEntities ==
  /\ \A k \in DOMAIN state.products :
       Truthy(normalize_url(state.products[k].homepage_url))
         => Get(state.homepage_url_index,
                normalize_url(state.products[k].homepage_url)) = k
  /\ \A n \in DOMAIN state.homepage_url_index :
       /\ state.homepage_url_index[n] \in DOMAIN state.products
       /\ normalize_url(state.products[state.homepage_url_index[n]].homepage_url) = n

\* C8: the delays computed for a source since its last success are
\* non-decreasing and none exceeds the source's max_retry_seconds.
C8_DelaysMonotoneBounded ==
  \A source \in RateLimitSource :
    \A i \in 1..Len(delays[source]) :
      /\ delays[source][i] <= RATE_LIMIT_CONFIGS[source].max_retry_seconds
      /\ i > 1 => delays[source][i - 1] <= delays[source][i]

\* C9: execute_with_retry waits before every invocation, invokes at most
\* max_retries + 1 times, returns at the first success, re-raises an error that
\* is not a rate limit without sleeping for it, and re-raises a rate-limit error
\* only after max_retries + 1 invocations and exactly max_retries sleeps.
C9_RetryContract ==
  /\ exec.invocations <= exec.max_retries + 1
  /\ exec.waits = exec.invocations + (IF exec.pc = "call" THEN 1 ELSE 0)
  /\ exec.sleeps = exec.invocations - (IF exec.pc \in {"idle", "backoff"}
                                          /\ exec.invocations > 0 THEN 1 ELSE 0)
  /\ exec.result \in {"none", "returned", "raised"}
  /\ exec.result # "none" => exec.pc = "idle" /\ exec.invocations > 0
  /\ (exec.result = "raised" /\ is_rate_limit_error(exec.error.text, exec.source))
       => /\ exec.invocations = exec.max_retries + 1
          /\ exec.sleeps = exec.max_retries

\* every invocation failed with a rate-limit error: re-raised after two sleeps
C9_Witness ==
  /\ exec.result = "raised"
  /\ is_rate_limit_error(exec.error.text, exec.source)
  /\ exec.max_retries = 2
  /\ exec.invocations = 3
  /\ exec.sleeps = 2

\* C10: after a successful extraction call of extract_targets the extraction
\* source has no consecutive failure and no retry delay.
C10_SuccessResetsLimiter ==
  tpc = "mark" => /\ limiter[OPENAI].consecutive_failures = 0
                  /\ limiter[OPENAI].current_retry_delay = 0

\* C11: while execute_with_retry sleeps for a backoff, the state the
\* on_rate_limit callback persisted holds the resume_at of that sleep.
C11_ResumeAtPersistedBeforeSleep ==
  exec.pc = "sleep"
    => persisted[exec.source].resume_at = limiter[exec.source].resume_at

\* logical tasks calling wait() on the shared limiter
SpecWait == Init /\ [][NextWait]_vars

\* C12: any two successive returns of wait(source) are at least
\* period_seconds / requests_per_period apart.
C12_WaitReturnsSpaced ==
  \A source \in RateLimitSource :
    \A i \in 1..Len(wait_returns[source]) :
      i > 1 => wait_returns[source][i] - wait_returns[source][i - 1]
                 >= min_delay_seconds(RATE_LIMIT_CONFIGS[source])

\* the target store through its status transitions, a crash at any step
SpecStore == Init /\ [][NextStore]_vars

\* C13: after a crash at any step of a status transition the store file holds
\* either every line it held before the transition or every line of the target
\* set after it.
C13_CrashLeavesBeforeOrAfter ==
  spc.pc = "crashed"
    => Get(sfiles, StorePath) \in {sghost.before, sghost.after}

\* a crash in the middle of the rewrite: the temp file is partly written
C13_Witness ==
  /\ spc.pc = "crashed"
  /\ sghost.before # sghost.after
  /\ Len(sghost.after) = 2
  /\ Len(sfiles[temp_path(StorePath)]) = 1
  /\ sfiles[StorePath] = sghost.before

\* target files of any lines, loaded
SpecLoad == Init /\ [][LoadTargets]_vars

\* the lines of a file that are well-formed targets, as targets
WellFormed(lines) ==
  LET F[i \in 0..Len(lines)] ==
        IF i = 0 THEN <<>>
        ELSE IF line_raises(lines[i]) = NoRaise
             THEN Append(F[i - 1], target_of(lines[i].fields))
             ELSE F[i - 1]
  IN  F[Len(lines)]

\* C14: loading a target file never raises, whatever malformed lines it holds;
\* the well-formed lines are loaded in order, a later id replacing an earlier
\* one, and the malformed lines are skipped.
C14_MalformedLinesSkipped ==
  /\ lres.raised = NoRaise
  /\ lres.m = load_targets(NoTargets, WellFormed(lfile), 1)

\* state files of any version, loaded
SpecLoadState == Init /\ [][LoadState]_vars

\* the defaults of the newer fields the claim names
NewerDefault ==
  [ source          |-> "saashub",
    producthunt_id  |-> None,
    producthunt_url |-> None,
    votes_count     |-> NoneInt,
    tagline         |-> None,
    topics          |-> {} ]

\* every entity of the file has its name
AllNamed(data) ==
  \A key \in DOMAIN get(data, "products", <<>>) : "name" \in DOMAIN data.products[key]

\* C15: loading a state file of an older version, or one whose entities lack
\* newer optional fields, does not raise; every newer field of an entity of an
\* older file, and every newer field an entity lacks, has its default; and
\* migrating migrated data again changes nothing.
C15_OlderStateLoadsWithDefaults ==
  AllNamed(cdata) =>
    /\ cres.raised = NoRaise
    /\ \A key \in DOMAIN cres.state.products :
         \A f \in DOMAIN NewerDefault :
           (get(cdata, "version", 1) < STATE_VERSION \/ f \notin DOMAIN cdata.products[key])
             => cres.state.products[key][f] = NewerDefault[f]
    /\ \E again \in {migrated(cdata)} :
         /\ migrated(again) = again
         /\ migrate(again, get(cdata, "version", 1)) = again

\* a version 1 file whose entity carries launch-source values was loaded
C15_Witness ==
  /\ "products" \in DOMAIN cdata
  /\ get(cdata, "version", 1) = 1
  /\ Len(cdata.product_keys) = 2
  /\ get(cdata.products[StateKey(1)], "source", "saashub") = "producthunt"
  /\ cres.raised = NoRaise
  /\ cres.state.products[StateKey(1)].source = "saashub"
  /\ cres.state.products[StateKey(2)].topics = {}

\* the two homepage resolvers, each on the pages it may be handed
SpecResolve == Init /\ [][NextResolve]_vars

\* C16: when the page has no website anchor and no slug-derived URL and every
\* external-link candidate scores below 100, the resolver returns none; for
\* the launch-page resolver and for the directory-page resolver.
C16_LowConfidenceReturnsNone ==
  /\ (/\ rpage.kind = "launch"
      /\ \A c \in launch_candidates(rpage.external_urls, LaunchProduct) : c.score < 100)
       => rfound = None
  /\ (/\ rpage.kind = "directory"
      /\ rpage.onclick = None
      /\ rpage.referrals = <<>>
      /\ rpage.slug_urls = <<>>
      /\ \A i \in 1..Len(candidate_links(rpage.external)) :
           score_link(candidate_links(rpage.external)[i],
                      extract_product_slug(DirectoryUrl)) < 100)
       => rfound = None

\* one batch resolution, its tasks interleaved in any way
SpecBatch == Init /\ [][NextBatch]_vars

\* the resolutions in flight: tasks inside the semaphore
InFlight == {id \in DOMAIN btask : btask[id].pc \in {"resolve", "sleep"}}

\* C17: at every instant of a batch resolution with concurrency c at most c
\* resolutions are in flight.
C17_AtMostConcurrencyInFlight == Cardinality(InFlight) <= bconc

\* the semaphore is exhausted while another task waits for it
C17_Witness ==
  /\ bpc = "running"
  /\ Cardinality(InFlight) = bconc
  /\ \E id \in DOMAIN btask : btask[id].pc = "acquire"

\* the event loop runs every task that can run, and every fetch ends
SpecBatchFair == Init /\ [][NextBatch]_vars /\ WF_vars(NextBatch)

\* at the return: every product attempted once, the result holds exactly the resolved
BatchResultExact ==
  bpc = "returned" =>
    \A id \in DOMAIN btask :
      /\ btask[id].attempts = 1
      /\ btask[id].outcome = "failed" => id \notin DOMAIN bresults
      /\ btask[id].outcome = "found" => id \in DOMAIN bresults /\ bresults[id] \in BatchUrls

\* C18: whatever subset of the resolutions fails, the batch returns, having
\* attempted every product exactly once; a failed product is absent from the
\* result and a resolved product is present with its URL.
C18_BatchSurvivesFailures ==
  /\ []BatchResultExact
  /\ (bpc = "running") ~> (bpc = "returned")

\* a batch returned with a failed and a resolved product
C18_Witness ==
  /\ bpc = "returned"
  /\ \E id \in DOMAIN btask : btask[id].outcome = "failed"
  /\ \E id \in DOMAIN btask : btask[id].outcome = "found" /\ id \in DOMAIN bresults

\* target_id was attempted once and is COMPLETED, or FAILED with a reason
Settled(target_id) ==
  /\ tm.targets[target_id].status \in {COMPLETED, FAILED}
  /\ tm.targets[target_id].status = FAILED => Truthy(tm.targets[target_id].failure_reason)
  /\ tm.targets[target_id].extraction_attempts = 1

\* every target of the batch is settled, in memory and in the target file
BatchSettled ==
  /\ \A i \in 1..Len(batch) : Settled(batch[i])
  /\ \A k \in 1..Len(tfile) :
       tfile[k].id \in Range(batch) => tfile[k] = tm.targets[tfile[k].id]

\* inside the loop the targets before the current one are settled and the
\* others are still PENDING and not attempted
LoopInOrder ==
  tpc \in {"wait", "call", "backoff", "mark"} =>
    \A i \in 1..Len(batch) :
      IF i < ti THEN Settled(batch[i])
      ELSE /\ tm.targets[batch[i]].status = PENDING
           /\ tm.targets[batch[i]].extraction_attempts = 0

MaxEntities == 6

EntityDigits == <<"1","2","3","4","5","6","7","8","9">>

\* the i-th alternative of a long result list
ManyAlt(i) ==
  [id |-> <<"s", EntityDigits[i]>>, name |-> <<"P", EntityDigits[i]>>,
   saashubUrl |-> <<"/","p", EntityDigits[i]>>]

\* the homepage resolved for it
ManyUrl(i) == <<"h","t","t","p","s",":","/","/","p", EntityDigits[i], ".","c","o","m">>

RECURSIVE set_homepages(_, _)
set_homepages(st, i) ==
  IF i > Len(st.product_keys) THEN st
  ELSE With(set_homepage(st, st.product_keys[i], ManyUrl(i)), LAMBDA st1 :
         set_homepages(st1, i + 1))

\* the state file after discovery registered MaxEntities alternatives of the
\* first seed and the homepage phase resolved a homepage for each
ResolvedMany ==
  LET found == register_alternatives(new, Seeds[1], [i \in 1..MaxEntities |-> ManyAlt(i)], 1)
      seeds == mark_seed_processed(mark_seed_processed(found, Seeds[1]), Seeds[2])
  IN  set_homepages(seeds, 1)

\* run() is called with skip_discovery and skip_homepages on that state file
InitMany ==
  /\ InitOthers
  /\ disk_exists = TRUE
  /\ disk = ResolvedMany
  /\ skip = [discovery |-> TRUE, homepages |-> TRUE, extraction |-> FALSE]
  /\ budget = MaxEntities

NextMany ==
  \/ RunStart
  \/ HomepagesBegin
  \/ ExtractBegin
  \/ ExtractCrawlFailed
  \/ ExtractNoContent
  \/ ExtractWritten
  \/ ExtractMarked
  \/ ExtractEnd
  \/ Crash

\* the extraction phase over a list longer than its save interval
SpecMany == InitMany /\ [][NextMany]_vars

\* the entities whose record in memory is not the one in the state file
Unsaved ==
  {key \in DOMAIN state.products :
     \/ ~disk_exists
     \/ key \notin DOMAIN disk.products
     \/ disk.products[key] # state.products[key]}

\* C20: in the homepage phase at most 10, and in the extraction phase at most
\* 5, processed entities have results that are not in the saved state.
C20_UnsavedBounded ==
  /\ pc = "homepages" => Cardinality(Unsaved) <= SaveEveryHomepages
  /\ pc \in {"extract", "extract_mark"} => Cardinality(Unsaved) <= SaveEveryExtractions

\* the legacy pipeline in an environment where a key may be missing
SpecKeys == Init /\ [][NextKeys]_vars

\* a key needed by a phase that is not skipped is missing
KeyMissing ==
  \/ ~skip.discovery /\ ~creds.saashub
  \/ ~skip.extraction /\ ~creds.openai

\* C21: when a key needed by a phase the run will execute is missing, no
\* query, fetch or extraction call is made and no state is saved.
C21_MissingKeyAbortsFirst ==
  KeyMissing => calls = 0 /\ ~disk_exists /\ (pc # "idle" => state = new)

\* ------------------------------------------------- discovery: errors of a query

\* the halt reason is the prefix of the f-string followed by the text of the error
ReasonCarries(st, e) ==
  Len(st.halt_reason) = 2 /\ st.halt_reason[Len(st.halt_reason)] = e

\* C22: a RateLimitError raised for a seed (the last attempt was answered 429)
\* sets halted with a halt reason that contains the error, saves that state and
\* ends the run without querying a later seed; another SaaSHubAPIError for a
\* seed leaves halted false and the state as it was, and the loop goes on with
\* the next seed
C22_RateLimitHaltsApiErrorContinues ==
  [][ /\ DiscoverSeedRateLimited =>
           /\ disk_exists' /\ disk'.halted
           /\ ReasonCarries(disk', MsgSaaSHubRateLimit)
           /\ pc' = "idle"
      /\ DiscoverSeedApiError =>
           /\ state' = state /\ ~state'.halted
           /\ pc' = "discover" /\ seed_i' = seed_i + 1 ]_vars

\* the first seed ended with an API error and was left unprocessed, the second
\* was rate limited: the saved state is halted with no seed processed
C22_Witness ==
  /\ pc = "idle" /\ calls = 2 /\ disk_exists
  /\ disk.halted /\ ReasonCarries(disk, MsgSaaSHubRateLimit)
  /\ disk.processed_seeds = <<>>

\* ------------------------------------------- the limiter state and the saves

\* a step that writes a durable state file: the Collection State or the targets
StateSaved == disk' # disk \/ disk_exists' # disk_exists \/ tfile' # tfile

\* C23: every save of the durable state writes the limiter's per-source state
\* with it, and a relaunched process takes the limiter state of the last save.
C23_LimiterStateSavedWithState ==
  [][ /\ StateSaved => persisted' = limiter'
      /\ Launch => limiter' = persisted ]_vars

\* ------------------------------------------------- add_product: the merge rules

\* add_product called with records that differ in every merged field
SpecMerge == Init /\ [][Observe]_vars

\* the record handed to the add_product call of this step
Arrived == hist'[Len(hist')]

\* the entity add_product finds by the normalized homepage URL: merge_product
MergedInto == get_product_by_url(state, Arrived.homepage_url)

\* this step is an add_product call that merges into the entity found by URL
IsMerge == hist' # hist /\ MergedInto # None

\* this step is an add_product call that finds no entity by URL and one by key
IsKeyMatch ==
  hist' # hist /\ MergedInto = None /\ storage_key(Arrived) \in DOMAIN state.products

\* the entity this add_product call updates
Updated == IF MergedInto # None THEN MergedInto ELSE storage_key(Arrived)

\* C24: after a newly observed record is merged into an existing entity (found by
\* URL or by storage key), the entity's topics are exactly the union of the
\* topics it had and the topics of the record.
C24_TopicsAreUnion ==
  [][ (IsMerge \/ IsKeyMatch) =>
        state'.products[Updated].topics
          = state.products[Updated].topics \cup Arrived.topics ]_vars

\* an entity with topic "ai" took the topic "dev" of a second record
C24_Witness ==
  /\ Len(hist) = 2
  /\ hist[1].topics = {"ai"} /\ hist[2].topics = {"dev"}
  /\ DOMAIN state.products = {storage_key(hist[1])}
  /\ state.products[storage_key(hist[1])].topics = {"ai", "dev"}

Identifiers == {"saashub_id", "saashub_url", "producthunt_id", "producthunt_url"}

\* C25: in a merge every identifier and source URL that was set on the existing
\* entity keeps its value; the record only fills those that were absent.
C25_IdentifiersKept ==
  [][ IsMerge =>
        \A f \in Identifiers :
          Truthy(state.products[MergedInto][f])
            => state'.products[MergedInto][f] = state.products[MergedInto][f] ]_vars

\* C26: in a merge a vote count present on the existing entity is not replaced.
C26_VotesKept ==
  [][ IsMerge =>
        (TruthyInt(state.products[MergedInto].votes_count)
           => state'.products[MergedInto].votes_count
                = state.products[MergedInto].votes_count) ]_vars

\* the fields add_product never assigns on a key-based duplicate
UntouchedFields ==
  {"name", "saashub_url", "saashub_id", "seed_query", "source", "source_url",
   "producthunt_id", "producthunt_url", "extracted", "extraction_error",
   "extraction_attempts"}

\* the stored entity with the storage key of the arrived record, before and after
KeyBefore == state.products[storage_key(Arrived)]

KeyAfter == state'.products[storage_key(Arrived)]

\* homepage_url, tagline and votes_count change only from empty to populated,
\* the other scalar fields do not change, no entity is created
FillsOnlyEmpty ==
  /\ \A f \in {"homepage_url", "tagline"} :
       KeyAfter[f] # KeyBefore[f] => ~Truthy(KeyBefore[f]) /\ Truthy(KeyAfter[f])
  /\ KeyAfter.votes_count # KeyBefore.votes_count
       => ~TruthyInt(KeyBefore.votes_count) /\ TruthyInt(KeyAfter.votes_count)
  /\ KeyAfter.homepage_discovered # KeyBefore.homepage_discovered
       => ~Truthy(KeyBefore.homepage_url) /\ KeyAfter.homepage_discovered
  /\ \A f \in UntouchedFields : KeyAfter[f] = KeyBefore[f]
  /\ state'.product_keys = state.product_keys
  /\ DOMAIN state'.products = DOMAIN state.products
  /\ state'.total_discovered = state.total_discovered

\* C27: on a key-based duplicate (no URL match) add_product changes
\* homepage_url, tagline and votes_count only where they were empty, never
\* replaces a populated field by an empty one, extends topics to the union with
\* the new topics, changes no other field and creates no entity.
C27_KeyMatchFillsEmptyAndJoinsTopics ==
  [][ IsKeyMatch =>
        /\ FillsOnlyEmpty
        /\ KeyBefore.topics \subseteq KeyAfter.topics ]_vars

\* C27 as stated: only fields that were empty change, the topics included
C27_KeyMatchChangesOnlyEmptyFields ==
  [][ IsKeyMatch =>
        /\ FillsOnlyEmpty
        /\ (KeyAfter.topics # KeyBefore.topics => KeyBefore.topics = {}) ]_vars

\* a launch record with tagline, votes and topics was observed again under the
\* same key, without homepage and with other values: tagline and votes are kept
C27_Witness ==
  /\ Len(hist) = 2
  /\ hist[1].producthunt_id = hist[2].producthunt_id
  /\ hist[1].source = "producthunt" /\ hist[2].source = "producthunt"
  /\ Truthy(hist[1].homepage_url) /\ hist[2].homepage_url = None
  /\ hist[2].tagline = TagLaunch /\ hist[2].votes_count = 40
  /\ DOMAIN state.products = {storage_key(hist[1])}
  /\ state.products[storage_key(hist[1])].tagline = hist[1].tagline
  /\ state.products[storage_key(hist[1])].votes_count = 25

\* stored entities whose source is "merged"
MergedEntities == {k \in DOMAIN state.products : state.products[k].source = "merged"}

\* C28: after any sequence of add_product calls from an empty store,
\* total_merged is the number of stored entities whose source is "merged".
C28_TotalMergedCountsMergedEntities ==
  state.total_merged = Cardinality(MergedEntities)

\* ------------------------------------------------- RateLimiter: the sources

\* wait, handle_rate_limit and execute_with_retry called on any source in turn
SpecSources == Init /\ [][NextSources]_vars

\* the sources whose state this step changes
Touched == {source \in RateLimitSource : limiter'[source] # limiter[source]}

\* this step is a wait() on the source: it stamps the request
Waited(source) ==
  limiter'[source].last_request_time # limiter[source].last_request_time

\* this step is a handle_rate_limit() on the source: it counts the failure
BackedOff(source) ==
  limiter'[source].consecutive_failures = limiter[source].consecutive_failures + 1

\* C29: an operation on one source leaves the state of every other source
\* unchanged, and the delay it imposes is computed from the configuration and
\* the state of that source and the time alone.
C29_SourcesIndependent ==
  [][ /\ Cardinality(Touched) <= 1
      /\ exec.pc # "idle" => Touched \subseteq {exec.source}
      /\ \A source \in RateLimitSource :
           /\ Waited(source) =>
                clock' - clock
                  = required_delay(limiter[source], RATE_LIMIT_CONFIGS[source], clock)
           /\ (BackedOff(source) /\ exec.pc = "idle") =>
                \E retry_after \in RetryAfters :
                  clock' - clock
                    = retry_delay(limiter[source], RATE_LIMIT_CONFIGS[source], retry_after)
                        * TicksPerSecond ]_vars

\* two sources were used: one is backing off, another has made a request, the
\* third is as new
C29_Witness ==
  \E failed \in RateLimitSource :
    \E used \in RateLimitSource \ {failed} :
      \E unused \in RateLimitSource \ {failed, used} :
        /\ limiter[failed].consecutive_failures = 1
        /\ limiter[used].request_count = 1 /\ limiter[used].consecutive_failures = 0
        /\ limiter[unused] = RateLimitState

\* ------------------------------------------------- add_target: duplicates

\* add_target called with new and duplicate targets, the process restarted
SpecAdd == Init /\ [][NextAdd]_vars

\* the normalized homepage URL of a target, empty when it has none
TargetUrlKey(target) ==
  IF Truthy(target.homepage_url) THEN normalize_url(target.homepage_url) ELSE <<>>

\* some stored target has the id or the non-empty normalized homepage URL
Known(m, target) ==
  \/ target.id \in DOMAIN m.targets
  \/ /\ TargetUrlKey(target) # <<>>
     /\ \E id \in DOMAIN m.targets : TargetUrlKey(m.targets[id]) = TargetUrlKey(target)

\* no two stored targets share an id or a non-empty normalized homepage URL
NoDuplicateTargets ==
  /\ \A i \in 1..Len(tm.order) : \A j \in 1..Len(tm.order) :
       i # j => tm.order[i] # tm.order[j]
  /\ DOMAIN tm.targets = {tm.order[i] : i \in 1..Len(tm.order)}
  /\ \A id \in DOMAIN tm.targets : \A other \in DOMAIN tm.targets :
       (id # other /\ TargetUrlKey(tm.targets[id]) # <<>>)
         => TargetUrlKey(tm.targets[id]) # TargetUrlKey(tm.targets[other])

\* add_target returns True exactly for the targets that are not known
ReturnsTrueIffUnknown ==
  \A target \in AddPool : add_target_returns(tm, target) <=> ~Known(tm, target)

\* a call that returns True stores the target under its id, indexes its URL and
\* appends one line to the file, the earlier lines as they were
AddedAndAppended ==
  \E target \in AddPool :
    /\ ~Known(tm, target)
    /\ tm'.targets = Put(tm.targets, target.id, target)
    /\ tm'.order = Append(tm.order, target.id)
    /\ tm'.url_index = IF TargetUrlKey(target) # <<>>
                       THEN Put(tm.url_index, TargetUrlKey(target), target.id)
                       ELSE tm.url_index
    /\ tfile' = Append(tfile, target)

\* a call that returns False changes nothing
RefusedUnchanged ==
  /\ \E target \in AddPool : Known(tm, target)
  /\ tm' = tm /\ tfile' = tfile

\* C30: add_target returns True exactly when neither the id nor the normalized
\* homepage URL of the target is known; then it stores the target and appends
\* one line to the file, otherwise it leaves the targets, the URL index and the
\* file unchanged; no two stored targets share an id or a non-empty normalized
\* homepage URL.
C30_AddTargetRefusesDuplicates ==
  /\ [](ReturnsTrueIffUnknown /\ NoDuplicateTargets)
  /\ [][ /\ AddAny => AddedAndAppended
         /\ AddAnyDuplicate => RefusedUnchanged ]_vars

\* two targets are stored and on file; a third with a new id and the homepage
\* of the first in another spelling is known by its URL alone
C30_Witness ==
  /\ tpc = "ready" /\ Len(tm.order) = 2 /\ Len(tfile) = 2
  /\ \E target \in AddPool :
       /\ target.id \notin DOMAIN tm.targets
       /\ Known(tm, target) /\ ~add_target_returns(tm, target)

\* ------------------------------------------------- the reset operations

\* C31: reset_failed and reset_all_failed change only targets whose status is
\* FAILED: a COMPLETED or PENDING target is the same after any reset.
C31_ResetTouchesOnlyFailed ==
  [][ (StoreResetFailed \/ StoreResetAllFailed) =>
        \A id \in DOMAIN sm.targets :
          sm.targets[id].status # FAILED => sm'.targets[id] = sm.targets[id] ]_vars

\* ------------------------------------------------- classification of failures

\* the text holds rate-limit or quota vocabulary or the code 429
MentionsRateLimit(text) ==
  \/ says_rate_limit_or_429(text)
  \/ contains(lower(text), <<"q","u","o","t","a">>)

\* C32: an extraction failure of any kind whose message holds rate-limit or
\* quota vocabulary or the code 429 is classified as a rate-limit failure.
C32_RateLimitTextClassified ==
  (/\ ~last_outcome.ok
   /\ last_outcome.error # None
   /\ MentionsRateLimit(last_outcome.error))
    => last_outcome.is_rate_limit

\* ------------------------------------------------- the dedup index after load

\* C33: after CollectionState.load the dedup index is the index derived from
\* the loaded entities, whether the persisted index was missing, empty or stale.
C33_LoadedIndexDerived ==
  (cdata # <<>> /\ cres.raised = NoRaise)
    => cres.state.homepage_url_index = rebuild_url_index(cres.state)

\* ------------------------------------------------- the order of the phases

\* run(): discovery, then homepage resolution, then extraction
PhaseRank(p) ==
  IF p = "discover" THEN 1
  ELSE IF p \in {"homepages_begin", "homepages"} THEN 2
  ELSE 3

\* C34: within one run the phases go in the order discovery, homepage
\* resolution, extraction and never back; a query, a fetch or an extraction
\* call is made only inside the loop of its phase; and no step of a run starts
\* from a halted state, so nothing is called after a halt.
C34_PhasesInOrder ==
  /\ [](pc # "idle" => ~state.halted)
  /\ [][ /\ (pc # "idle" /\ pc' # "idle") => PhaseRank(pc) <= PhaseRank(pc')
         /\ calls' # calls => pc \in {"discover", "homepages", "extract"} ]_vars

\* a run queried its first seed with success and was halted by the rate limit
\* of the second: it ended there, saved and halted, no homepage fetched
C34_Witness ==
  /\ pc = "idle" /\ resumed /\ disk_exists
  /\ disk.halted /\ Len(disk.halt_reason) = 2
  /\ disk.processed_seeds # <<>>
  /\ calls = 2

\* ------------------------------------------------- one outcome per entity

\* one iteration of the extraction loop ended in a failure of some kind
ExtractionFailure ==
  \/ ExtractCrawlFailed
  \/ ExtractErrorPayload
  \/ ExtractJsonError
  \/ ExtractParseException
  \/ ExtractNoContent
  \/ ExtractException

\* C35: every entity the extraction loop processes gets exactly one outcome.
\* A failure of any kind writes no output row, stores the error on the entity
\* and adds exactly 1 to its extraction_attempts, leaving it not extracted; a
\* success appends exactly one output row, the row of that entity, and then
\* marks the entity extracted, adding 1 to its attempts and storing no error;
\* and the loop passes an entity by no other step.
C35_OneOutcomePerEntity ==
  [][ /\ ExtractionFailure =>
           /\ output' = output
           /\ After.products[work[item_i]].extraction_error = last_outcome'.error
           /\ After.products[work[item_i]].extraction_attempts
                = state.products[work[item_i]].extraction_attempts + 1
           /\ ~After.products[work[item_i]].extracted
      /\ ExtractWritten =>
           /\ Len(output') = Len(output) + 1
           /\ SubSeq(output', 1, Len(output)) = output
           /\ output'[Len(output')].entity = work[item_i]
           /\ state' = state
      /\ ExtractMarked =>
           /\ output' = output
           /\ output[Len(output)].entity = work[item_i]
           /\ state'.products[work[item_i]].extracted
           /\ state'.products[work[item_i]].extraction_attempts
                = state.products[work[item_i]].extraction_attempts + 1
           /\ state'.products[work[item_i]].extraction_error
                = state.products[work[item_i]].extraction_error
      /\ (pc \in {"extract", "extract_mark"} /\ pc' # "idle" /\ item_i' # item_i)
           => (ExtractionFailure \/ ExtractMarked) ]_vars

\* one run extracted one entity with success and failed on the other
C35_Witness ==
  /\ pc = "extract" /\ item_i > Len(work) /\ Len(work) = 2
  /\ Len(output) = 1
  /\ \E k \in DOMAIN state.products :
       /\ state.products[k].extracted
       /\ state.products[k].extraction_attempts = 1
       /\ state.products[k].extraction_error = None
  /\ \E k \in DOMAIN state.products :
       /\ ~state.products[k].extracted
       /\ state.products[k].extraction_attempts = 1
       /\ state.products[k].extraction_error # None

\* ------------------------------------------------- the key of the outcome

\* C36: every entity get_products_needing_extraction returns is recorded by
\* the orchestrator under the key that add_product stored it under: the
\* product_key computed from the entity is its storage key.
C36_OutcomeKeyIsStorageKey ==
  \E keys \in {get_products_needing_extraction(state)} :
    \A i \in 1..Len(keys) : product_key(state.products[keys[i]]) = keys[i]

\* ------------------------------------------------- when a seed is processed

\* every alternative of the list is an entity of the store
Registered(st, seed, alts) ==
  \A i \in 1..Len(alts) :
    storage_key(Observed(alts[i].name, seed, alts[i].saashubUrl, alts[i].id))
      \in DOMAIN st.products

RECURSIVE SumDiscovered(_, _)
SumDiscovered(stats, S) ==
  IF S = {} THEN 0
  ELSE With(CHOOSE k \in S : TRUE, LAMBDA k :
         stats[k].discovered + SumDiscovered(stats, S \ {k}))

DiscoveredCountsAgree ==
  /\ state.total_discovered = Cardinality(DOMAIN state.products)
  /\ state.total_discovered = SumDiscovered(state.source_stats, DOMAIN state.source_stats)

\* C38: after any sequence of add_product calls from a fresh state,
\* total_discovered is the number of stored entities and the sum of the
\* per-source discovered counters; and an add_product call that merges by URL
\* or matches by key changes neither the set of entities nor these counters.
C38_DiscoveredCountsEntities ==
  /\ []DiscoveredCountsAgree
  /\ [][ (IsMerge \/ IsKeyMatch) =>
           /\ DOMAIN state'.products = DOMAIN state.products
           /\ state'.total_discovered = state.total_discovered
           /\ state'.source_stats = state.source_stats ]_vars

\* three add_product calls left two entities of two sources: one call merged
C38_Witness ==
  /\ Len(hist) = 3
  /\ state.total_discovered = 2
  /\ state.total_merged = 1
  /\ Cardinality(DOMAIN state.source_stats) = 2

\* ------------------------------------------------- the file mirrors the store

\* TargetManager(path) in a process started now: what _load() would read
Reloaded ==
  load_targets(NoTargets, IF StorePath \in DOMAIN sfiles THEN sfiles[StorePath] ELSE <<>>, 1)

\* C39: whenever no TargetManager operation is in progress, loading the store
\* file yields the targets held in memory, with the same ids, status,
\* attempt count, failure reason and homepage URL, and the same URL index.
C39_ReloadYieldsMemory ==
  spc.pc = "idle"
    => /\ DOMAIN Reloaded.targets = DOMAIN sm.targets
       /\ \A id \in DOMAIN sm.targets :
            /\ Reloaded.targets[id].status = sm.targets[id].status
            /\ Reloaded.targets[id].extraction_attempts = sm.targets[id].extraction_attempts
            /\ Reloaded.targets[id].failure_reason = sm.targets[id].failure_reason
            /\ Reloaded.targets[id].homepage_url = sm.targets[id].homepage_url
       /\ Reloaded.url_index = sm.url_index

\* two targets were added, one of them failed and was reset: it is PENDING
\* with one attempt, in memory and in the file
C39_Witness ==
  /\ spc.pc = "idle"
  /\ Cardinality(DOMAIN sm.targets) = 2
  /\ \E id \in DOMAIN sm.targets :
       /\ sm.targets[id].status = PENDING
       /\ sm.targets[id].extraction_attempts = 1
       /\ Reloaded.targets[id] = sm.targets[id]

\* ------------------------------------------------- flag and homepage agree

\* C40: in every reachable state an entity's homepage_discovered flag is true
\* exactly when its homepage_url is non-empty, so every entity not yet
\* extracted is selected by exactly one of get_products_needing_homepage and
\* get_products_needing_extraction.
C40_FlagIffHomepage ==
  \A k \in DOMAIN state.products :
    /\ state.products[k].homepage_discovered <=> Truthy(state.products[k].homepage_url)
    /\ ~state.products[k].extracted
         => (NeedsHomepage(state.products[k]) # NeedsExtraction(state.products[k]))

====
